---- MODULE Spec2Model ----
(***************************************************************************)
(* The chunked playlist persistence engine of src/client/lib/storage.ts,   *)
(* over an AsyncStorage key/value store whose calls may reject.            *)
(*                                                                         *)
(* Representation.  The store maps keys to the parsed form of the JSON     *)
(* text kept under them.  A key built from a template                      *)
(* `${prefix}${id}` or `${prefix}${id}_${i}` is the tuple of the parts.    *)
(* A property whose value is undefined, and a missing property, both read  *)
(* as Undefined; JSON.stringify removes the former.                        *)
(***************************************************************************)
EXTENDS Integers, Sequences, FiniteSets, TLC

VARIABLES
    store,      \* AsyncStorage: a function from the keys present to values
    call,       \* the last completed operation: name, target id, error thrown, store calls issued
    saved,      \* the input of the most recent savePlaylist not yet followed by a delete or update
    ret,        \* what the last getPlaylist returned
    opsLeft,    \* operations the behaviour may still perform
    inject,     \* whether the store may still reject calls
    content,    \* the lines of the text handed to parseM3U
    parsed,     \* what the last parseM3U returned for content, with its push log
    manifest,   \* what the fetch of the master manifest answers
    qualities,  \* what parseHLSQualities returned for manifest
    issued,     \* the tokens generateId has returned so far, in call order
    ctx,        \* the React state of PlaylistProvider
    task,       \* the context operation in flight, or the last one completed
    flight,     \* the savePlaylist calls running side by side: position and locals of each
    added       \* the addRecentChannel calls completed so far, oldest first

engineVars == <<store, call, saved, ret, opsLeft, inject>>
parserVars == <<content, parsed, issued>>
ctxVars == <<ctx, task>>
hlsVars == <<manifest, qualities>>
raceVars == <<flight>>
recentVars == <<added>>
nonEngineVars == <<parserVars, ctxVars, hlsVars, raceVars, recentVars>>
vars == <<engineVars, nonEngineVars>>

(* ------------------------------ bounds -------------------------------- *)

MaxChunks == 2          \* input playlists hold up to MaxChunks * CHUNK_SIZE channels
MaxOps == 3             \* store-changing operations per behaviour
MaxBlocks == 3          \* pieces (single lines or whole entries) per input text
MaxIds == 4             \* generateId calls per behaviour
MaxCtxOps == 2          \* context operations per behaviour
MaxAdds == 3            \* addRecentChannel calls per behaviour

(* --------------------------- program constants ------------------------ *)

CHUNK_SIZE == 300
MaxStoredCategories == 50
RecentLimit == 20
SQLITE_FULL == 13

STORAGE_KEYS ==
    [ PLAYLISTS          |-> "prysm_playlists",
      ACTIVE_PLAYLIST_ID |-> "prysm_active_playlist",
      PLAYLIST_META      |-> "prysm_playlist_meta_",
      PLAYLIST_CHUNKS    |-> "prysm_playlist_chunks_",
      RECENT             |-> "prysm_recent" ]

PlaylistsKey == <<STORAGE_KEYS.PLAYLISTS>>
ActiveKey == <<STORAGE_KEYS.ACTIVE_PLAYLIST_ID>>
RecentKey == <<STORAGE_KEYS.RECENT>>
MetaKey(id) == <<STORAGE_KEYS.PLAYLIST_META, id>>
ChunkKey(id, i) == <<STORAGE_KEYS.PLAYLIST_CHUNKS, id, i>>

(* --------------------------- JavaScript values ------------------------ *)

Undefined == "<undefined>"
Null == "<null>"

\* JavaScript truthiness of a string-or-absent value
Truthy(v) == v # Undefined /\ v # Null /\ v # ""

\* obj.f : Undefined when the property is missing
Prop(obj, f) == IF f \in DOMAIN obj THEN obj[f] ELSE Undefined

\* The properties that may hold undefined in the objects the engine serializes
OptionalProps == {"url", "xtreamCredentials", "logo", "l"}

\* JSON.parse(JSON.stringify(obj)) of a flat object: undefined-valued properties are dropped
JSONObject(obj) ==
    [f \in {g \in DOMAIN obj : ~(g \in OptionalProps /\ obj[g] = Undefined)} |-> obj[f]]

\* JSON.parse(JSON.stringify(arr)) of an array of flat objects
JSONArray(arr) == [k \in 1..Len(arr) |-> JSONObject(arr[k])]

Min(a, b) == IF a < b THEN a ELSE b

\* Mutant of MathCeilDiv: the count of full chunks only, Math.floor(a / b)
MathFloorDiv(a, b) == a \div b

\* Math.ceil(a / b) for a >= 0, b > 0
MathCeilDiv(a, b) == IF a % b = 0 THEN a \div b ELSE (a \div b) + 1

\* arr.slice(start, end), 0-based, end exclusive
Slice(arr, start, end) == SubSeq(arr, start + 1, Min(end, Len(arr)))

\* arr.findIndex(p => p.id === id), 0-based, -1 when none
FindIndexById(arr, id) ==
    IF \E k \in 1..Len(arr) : arr[k].id = id
    THEN (CHOOSE k \in 1..Len(arr) :
             arr[k].id = id /\ \A m \in 1..(k - 1) : arr[m].id # id) - 1
    ELSE -1

(* ------------------------------ store faults -------------------------- *)

NoError == [message |-> "", code |-> 0]
ErrDiskFullMessage == [message |-> "database or disk is full", code |-> 0]
ErrSqliteFull == [message |-> "SQLITE_FULL", code |-> SQLITE_FULL]
ErrOther == [message |-> "I/O error", code |-> 0]
DeviceStorageFullError ==
    [message |-> "Device storage is full. Please free up some space or use a smaller playlist.",
     code |-> 0]

\* error.message?.includes("disk is full")
MessageIncludesDiskIsFull(e) == e.message = ErrDiskFullMessage.message

\* error.message?.includes("disk is full") || error.code === 13
IsQuotaError(e) == MessageIncludesDiskIsFull(e) \/ e.code = SQLITE_FULL

\* A plan of the store's faults during one operation: the calls numbered
\* `from` (and, when persist, every later one) reject with err; from = 0: none.
NoFault == [from |-> 0, persist |-> FALSE, err |-> NoError]

FaultAt(plan, ord) ==
    IF plan.from # 0 /\ (ord = plan.from \/ (plan.persist /\ ord > plan.from))
    THEN plan.err ELSE NoError

(* ------------------------- AsyncStorage calls ------------------------- *)
\* io = [store, log]: the store and the calls issued so far by the operation

StartIO(s) == [store |-> s, log |-> <<>>]
LastErr(io) == io.log[Len(io.log)].err
Failed(io) == LastErr(io) # NoError

Put(s, key, value) == [k \in (DOMAIN s) \cup {key} |-> IF k = key THEN value ELSE s[k]]
Remove(s, keys) == [k \in (DOMAIN s) \ keys |-> s[k]]

\* AsyncStorage.setItem(key, value)
setItem(io, key, value, plan) ==
    LET e == FaultAt(plan, Len(io.log) + 1)
    IN  [store |-> IF e = NoError THEN Put(io.store, key, value) ELSE io.store,
         log   |-> Append(io.log, [fn |-> "setItem", keys |-> {key}, err |-> e])]

\* AsyncStorage.getItem(key): the log records the call; found/value give the result
getItem(io, key, plan) ==
    LET e == FaultAt(plan, Len(io.log) + 1)
    IN  [store |-> io.store,
         log   |-> Append(io.log, [fn |-> "getItem", keys |-> {key}, err |-> e])]

Found(io, key) == ~Failed(io) /\ key \in DOMAIN io.store

\* AsyncStorage.multiRemove(keys)
multiRemove(io, keys, plan) ==
    LET e == FaultAt(plan, Len(io.log) + 1)
    IN  [store |-> IF e = NoError THEN Remove(io.store, keys) ELSE io.store,
         log   |-> Append(io.log, [fn |-> "multiRemove", keys |-> keys, err |-> e])]

\* AsyncStorage.removeItem(key)
removeItem(io, key, plan) ==
    LET e == FaultAt(plan, Len(io.log) + 1)
    IN  [store |-> IF e = NoError THEN Remove(io.store, {key}) ELSE io.store,
         log   |-> Append(io.log, [fn |-> "removeItem", keys |-> {key}, err |-> e])]

(* ------------------------------ record model -------------------------- *)

\* minimizeChannel: the projection kept in a chunk; l only for a truthy logo
minimizeChannel(channel) ==
    IF Truthy(channel.logo)
    THEN [i |-> channel.id, n |-> channel.name, u |-> channel.url, g |-> channel.group,
          l |-> channel.logo]
    ELSE [i |-> channel.id, n |-> channel.name, u |-> channel.url, g |-> channel.group]

\* expandChannel: back to a Channel; every other Channel property is missing
expandChannel(min) ==
    [id |-> min.i, name |-> min.n, url |-> min.u, group |-> min.g, logo |-> Prop(min, "l")]

(* --------------------------- summary list, active id ------------------ *)
\* Each returns [io, value]; a rejected call is caught and logged by the code.

\* getPlaylistList: data ? JSON.parse(data) : [], and [] when the read rejects
getPlaylistList(io0, plan) ==
    LET io == getItem(io0, PlaylistsKey, plan)
    IN  [io |-> io,
         value |-> IF Found(io, PlaylistsKey) THEN io.store[PlaylistsKey] ELSE <<>>]

\* savePlaylistList: a rejected write is swallowed
savePlaylistList(io0, playlists, plan) ==
    setItem(io0, PlaylistsKey, JSONArray(playlists), plan)

\* getActivePlaylistId: null when absent or when the read rejects
getActivePlaylistId(io0, plan) ==
    LET io == getItem(io0, ActiveKey, plan)
    IN  [io |-> io,
         value |-> IF Found(io, ActiveKey) THEN io.store[ActiveKey] ELSE Null]

\* setActivePlaylistId: a rejected write is swallowed
setActivePlaylistId(io0, id, plan) ==
    setItem(io0, ActiveKey, id, plan)

(* ------------------------------ recent channels ---------------------- *)

\* getRecentChannels: data ? JSON.parse(data) : [], and [] when the read
\* rejects; the stored text of an array of strings parses to that array
getRecentChannels(io0, plan) ==
    LET io == getItem(io0, RecentKey, plan)
    IN  [io |-> io,
         value |-> IF Found(io, RecentKey) THEN io.store[RecentKey] ELSE <<>>]

\* recent.slice(0, 20)
SliceRecent(recent) ==
    IF Len(recent) > RecentLimit THEN SubSeq(recent, 1, RecentLimit) ELSE recent

\* Mutant of addRecentChannel: the list is not filtered before the unshift
addRecentChannelUnfiltered(io0, channelId, plan) ==
    LET got == getRecentChannels(io0, plan)
    IN  setItem(got.io, RecentKey, SliceRecent(<<channelId>> \o got.value), plan)

\* addRecentChannel(channelId): read, filter the id out, unshift it, keep
\* the first 20, write; a rejected write is caught and logged
addRecentChannel(io0, channelId, plan) ==
    LET got == getRecentChannels(io0, plan)
        filtered == SelectSeq(got.value, LAMBDA id : id # channelId)
    IN  setItem(got.io, RecentKey, SliceRecent(<<channelId>> \o filtered), plan)

(* ------------------------------ savePlaylist -------------------------- *)

\* Mutant of SaveOuterCatch: every caught error is rethrown as it is
SaveRethrow(error) == error

\* The outer catch of savePlaylist: what it rethrows for a caught error
SaveOuterCatch(error) ==
    IF IsQuotaError(error) THEN DeviceStorageFullError ELSE error

\* Mutant of ChunkOf: every chunk after the first starts one channel early
ChunkOfOverlapping(channels, i) ==
    LET start == i * (CHUNK_SIZE - 1)
        end == Min(start + CHUNK_SIZE, Len(channels))
    IN  [k \in 1..(end - start) |-> minimizeChannel(channels[start + k])]

\* The chunk of index i: channels.slice(start, end).map(minimizeChannel)
ChunkOf(channels, i) ==
    LET start == i * CHUNK_SIZE
        end == Min(start + CHUNK_SIZE, Len(channels))
    IN  [k \in 1..(end - start) |-> minimizeChannel(channels[start + k])]

\* Mutant of SaveChunkLoop: the chunks are written from the last index down
RECURSIVE SaveChunkLoopDescending(_, _, _, _, _)
SaveChunkLoopDescending(io, i, playlist, meta, plan) ==
    IF ~(i < meta.chunkCount)
    THEN [io |-> io, meta |-> meta, thrown |-> NoError]
    ELSE LET io2 == setItem(io, ChunkKey(playlist.id, meta.chunkCount - 1 - i),
                            ChunkOf(playlist.channels, meta.chunkCount - 1 - i), plan)
         IN  IF ~Failed(io2)
             THEN SaveChunkLoopDescending(io2, i + 1, playlist, meta, plan)
             ELSE [io |-> io2, meta |-> meta, thrown |-> LastErr(io2)]

\* The chunk loop from index i on: [io, meta, thrown]; thrown = NoError when
\* the loop ends normally or by the break of the quota branch.
RECURSIVE SaveChunkLoop(_, _, _, _, _)
SaveChunkLoop(io, i, playlist, meta, plan) ==
    IF ~(i < meta.chunkCount)
    THEN [io |-> io, meta |-> meta, thrown |-> NoError]
    ELSE LET io2 == setItem(io, ChunkKey(playlist.id, i), ChunkOf(playlist.channels, i), plan)
         IN  IF ~Failed(io2)
             THEN SaveChunkLoop(io2, i + 1, playlist, meta, plan)
             ELSE IF IsQuotaError(LastErr(io2))
                  THEN LET meta2 == [meta EXCEPT !.chunkCount = i,
                                                 !.totalChannels = i * CHUNK_SIZE]
                           io3 == setItem(io2, MetaKey(playlist.id), JSONObject(meta2), plan)
                       IN  [io |-> io3, meta |-> meta2,
                            thrown |-> IF Failed(io3) THEN LastErr(io3) ELSE NoError]
                  ELSE [io |-> io2, meta |-> meta, thrown |-> LastErr(io2)]

\* The metadata record savePlaylist builds
SaveMeta(playlist, type, xtreamCredentials) ==
    [ id |-> playlist.id,
      name |-> playlist.name,
      type |-> type,
      url |-> Prop(playlist, "url"),
      xtreamCredentials |-> xtreamCredentials,
      categories |-> Slice(playlist.categories, 0, MaxStoredCategories),
      lastUpdated |-> playlist.lastUpdated,
      totalChannels |-> Len(playlist.channels),
      chunkCount |-> MathCeilDiv(Len(playlist.channels), CHUNK_SIZE) ]

\* The summary part of savePlaylist, after the chunk loop
SaveSummary(io0, playlist, type, xtreamCredentials, meta, plan) ==
    LET got == getPlaylistList(io0, plan)
        playlists == got.value
        existingIndex == FindIndexById(playlists, playlist.id)
        playlistInfo ==
            [ id |-> playlist.id,
              name |-> playlist.name,
              type |-> type,
              url |-> Prop(playlist, "url"),
              xtreamCredentials |-> xtreamCredentials,
              channelCount |-> meta.totalChannels,
              lastUpdated |-> meta.lastUpdated ]
        updated == IF existingIndex >= 0
                   THEN [playlists EXCEPT ![existingIndex + 1] = playlistInfo]
                   ELSE Append(playlists, playlistInfo)
        io1 == savePlaylistList(got.io, updated, plan)
    IN  setActivePlaylistId(io1, playlist.id, plan)

\* savePlaylist(playlist, type, xtreamCredentials): [io, thrown]
savePlaylist(s, playlist, type, xtreamCredentials, plan) ==
    LET meta == SaveMeta(playlist, type, xtreamCredentials)
        io1 == setItem(StartIO(s), MetaKey(playlist.id), JSONObject(meta), plan)
    IN  IF Failed(io1)
        THEN [io |-> io1, thrown |-> SaveOuterCatch(LastErr(io1))]
        ELSE LET loop == SaveChunkLoop(io1, 0, playlist, meta, plan)
             IN  IF loop.thrown # NoError
                 THEN [io |-> loop.io, thrown |-> SaveOuterCatch(loop.thrown)]
                 ELSE [io |-> SaveSummary(loop.io, playlist, type, xtreamCredentials,
                                          loop.meta, plan),
                       thrown |-> NoError]

(* ------------------------------ getPlaylist --------------------------- *)

NullResult == [null |-> TRUE]
PlaylistResult(p) == [null |-> FALSE, playlist |-> p]

\* chunk.map(expandChannel)
ExpandChunk(chunk) == [k \in 1..Len(chunk) |-> expandChannel(chunk[k])]

\* Mutant of LoadChunkLoop: the loop ends at the first chunk that is absent
\* or whose read rejects
RECURSIVE LoadChunkLoopAborting(_, _, _, _, _, _)
LoadChunkLoopAborting(io, i, id, chunkCount, channels, plan) ==
    IF ~(i < chunkCount)
    THEN [io |-> io, channels |-> channels]
    ELSE LET io2 == getItem(io, ChunkKey(id, i), plan)
         IN  IF Found(io2, ChunkKey(id, i))
             THEN LoadChunkLoopAborting(io2, i + 1, id, chunkCount,
                      channels \o ExpandChunk(io.store[ChunkKey(id, i)]), plan)
             ELSE [io |-> io2, channels |-> channels]

\* The chunk loop of getPlaylist from index i on: [io, channels].  A chunk
\* whose read rejects, or that is absent, is skipped.
RECURSIVE LoadChunkLoop(_, _, _, _, _, _)
LoadChunkLoop(io, i, id, chunkCount, channels, plan) ==
    IF ~(i < chunkCount)
    THEN [io |-> io, channels |-> channels]
    ELSE LET io2 == getItem(io, ChunkKey(id, i), plan)
         IN  LoadChunkLoop(io2, i + 1, id, chunkCount,
                 IF Found(io2, ChunkKey(id, i))
                 THEN channels \o ExpandChunk(io.store[ChunkKey(id, i)])
                 ELSE channels,
                 plan)

\* The body of getPlaylist's try block from the resolved id on: [io, ret, error],
\* error being what escapes to the outer catch (a rejected metadata read)
LoadResolved(io0, id, plan) ==
    IF ~Truthy(id)
    THEN [io |-> io0, ret |-> NullResult, error |-> NoError]
    ELSE LET io == getItem(io0, MetaKey(id), plan)
         IN  IF Failed(io)
             THEN [io |-> io, ret |-> NullResult, error |-> LastErr(io)]
             ELSE IF ~Found(io, MetaKey(id))
             THEN [io |-> io, ret |-> NullResult, error |-> NoError]
             ELSE LET meta == io.store[MetaKey(id)]
                      loop == LoadChunkLoop(io, 0, id, meta.chunkCount, <<>>, plan)
                  IN  [io |-> loop.io,
                       ret |-> PlaylistResult(
                           [ id |-> meta.id,
                             name |-> meta.name,
                             url |-> Prop(meta, "url"),
                             categories |-> meta.categories,
                             lastUpdated |-> meta.lastUpdated,
                             channels |-> loop.channels ]),
                       error |-> NoError]

\* The outer catch of getPlaylist: the error is logged and null returned
LoadOuterCatch(body) ==
    IF body.error # NoError
    THEN [io |-> body.io, ret |-> NullResult, thrown |-> NoError]
    ELSE [io |-> body.io, ret |-> body.ret, thrown |-> NoError]

\* Mutant of getPlaylist: the id given is ignored and the active id is read
getPlaylistOfActive(s, playlistId, plan) ==
    LET active == getActivePlaylistId(StartIO(s), plan)
    IN  LoadOuterCatch(LoadResolved(active.io, active.value, plan))

\* getPlaylist(playlistId?): [io, ret, thrown], with id = playlistId || active id
getPlaylist(s, playlistId, plan) ==
    IF Truthy(playlistId)
    THEN LoadOuterCatch(LoadResolved(StartIO(s), playlistId, plan))
    ELSE LET active == getActivePlaylistId(StartIO(s), plan)
         IN  LoadOuterCatch(LoadResolved(active.io, active.value, plan))

(* ----------------------------- deletePlaylist ------------------------- *)

\* Mutant of DeleteKeys: the chunk keys are removed whatever id owns them
DeleteKeysAnyOwner(playlistId, meta) ==
    {MetaKey(playlistId)} \cup
    {ChunkKey(id, i) : id \in {"a", "b"}, i \in 0..(meta.chunkCount - 1)}

\* The keys deletePlaylist removes for a metadata record
DeleteKeys(playlistId, meta) ==
    {MetaKey(playlistId)} \cup {ChunkKey(playlistId, i) : i \in 0..(meta.chunkCount - 1)}

\* playlists.filter(p => p.id !== playlistId)
FilterOutId(playlists, playlistId) ==
    SelectSeq(playlists, LAMBDA p : p.id # playlistId)

\* Mutant of DeleteSummary: the active id is cleared, no entry is promoted
DeleteSummaryClearing(io0, playlistId, plan) ==
    LET got == getPlaylistList(io0, plan)
        filtered == FilterOutId(got.value, playlistId)
        io1 == savePlaylistList(got.io, filtered, plan)
        active == getActivePlaylistId(io1, plan)
    IN  IF active.value = playlistId
        THEN removeItem(active.io, ActiveKey, plan)
        ELSE active.io

\* The part of deletePlaylist after the records are removed: summary list, active id
DeleteSummary(io0, playlistId, plan) ==
    LET got == getPlaylistList(io0, plan)
        filtered == FilterOutId(got.value, playlistId)
        io1 == savePlaylistList(got.io, filtered, plan)
        active == getActivePlaylistId(io1, plan)
    IN  IF active.value = playlistId
        THEN IF Len(filtered) > 0
             THEN setActivePlaylistId(active.io, filtered[1].id, plan)
             ELSE removeItem(active.io, ActiveKey, plan)
        ELSE active.io

\* deletePlaylist(playlistId): the io; every error is caught and logged
deletePlaylist(s, playlistId, plan) ==
    LET io == getItem(StartIO(s), MetaKey(playlistId), plan)
    IN  IF Failed(io)
        THEN io
        ELSE IF Found(io, MetaKey(playlistId))
             THEN LET io2 == multiRemove(io,
                                 DeleteKeys(playlistId, io.store[MetaKey(playlistId)]), plan)
                  IN  IF Failed(io2) THEN io2 ELSE DeleteSummary(io2, playlistId, plan)
             ELSE DeleteSummary(io, playlistId, plan)

(* --------------------------- updatePlaylistInfo ----------------------- *)

\* obj.f = v
SetProp(obj, f, v) == [g \in (DOMAIN obj) \cup {f} |-> IF g = f THEN v ELSE obj[g]]

\* Mutant of PatchInfo: the url is assigned even when none is given
PatchInfoAlwaysUrl(obj, name, url) ==
    SetProp(SetProp(obj, "name", name), "url", url)

\* name and, when url !== undefined, url patched on a metadata or summary object
PatchInfo(obj, name, url) ==
    IF url # Undefined THEN SetProp(SetProp(obj, "name", name), "url", url)
    ELSE SetProp(obj, "name", name)

\* The summary part of updatePlaylistInfo
UpdateSummary(io0, playlistId, name, url, plan) ==
    LET got == getPlaylistList(io0, plan)
        playlists == got.value
        playlistIndex == FindIndexById(playlists, playlistId)
    IN  IF playlistIndex >= 0
        THEN savePlaylistList(got.io,
                 [playlists EXCEPT ![playlistIndex + 1] = PatchInfo(@, name, url)], plan)
        ELSE got.io

\* updatePlaylistInfo(playlistId, name, url?): [io, thrown]; a rejected
\* metadata read or write is rethrown
updatePlaylistInfo(s, playlistId, name, url, plan) ==
    LET io == getItem(StartIO(s), MetaKey(playlistId), plan)
    IN  IF Failed(io)
        THEN [io |-> io, thrown |-> LastErr(io)]
        ELSE IF Found(io, MetaKey(playlistId))
             THEN LET io2 == setItem(io, MetaKey(playlistId),
                                 JSONObject(PatchInfo(io.store[MetaKey(playlistId)], name, url)),
                                 plan)
                  IN  IF Failed(io2)
                      THEN [io |-> io2, thrown |-> LastErr(io2)]
                      ELSE [io |-> UpdateSummary(io2, playlistId, name, url, plan),
                            thrown |-> NoError]
             ELSE [io |-> UpdateSummary(io, playlistId, name, url, plan),
                   thrown |-> NoError]

(* ------------------------------ m3u-parser ---------------------------- *)
\* A line of the text, after content.split("\n") and trim(), is a record of
\* what the parser's tests and regular expressions find in it:
\*   kind "blank"    the empty line;
\*   kind "extinf"   a line starting with "#EXTINF:", with the captures of
\*                   parseExtInf's expressions (Undefined: no match);
\*   kind "comment"  any other line starting with "#"; prop/value name the
\*                   directive parseDRM looks for in it, if any;
\*   kind "url"      a non-empty line not starting with "#", with its text.

LineIsEmpty(line) == line.kind = "blank"
StartsWithHash(line) == line.kind \in {"extinf", "comment"}
StartsWithExtInf(line) == line.kind = "extinf"

\* line.includes(directive), for the four directives of parseDRM
IncludesDirective(line, directive) == line.kind = "comment" /\ line.prop = directive

\* String.prototype.toUpperCase on the quality tokens
ToUpperCase(s) ==
    CASE s = "hd" -> "HD"
      [] s = "fhd" -> "FHD"
      [] s = "720p" -> "720P"
      [] OTHER -> s

\* generateId(): two Math.random() draws in base 36.  Nothing relates a draw
\* to the earlier ones, so a token either repeats one of those generated
\* before or is a new one; tokens are named in order of first appearance.
Tokens == <<"t1", "t2", "t3", "t4", "t5", "t6", "t7", "t8", "t9", "t10", "t11", "t12">>
GenerateIdOutcomes(earlier) ==
    LET old == {earlier[k] : k \in 1..Len(earlier)}
    IN  old \cup {Tokens[Cardinality(old) + 1]}

\* The token sequences after m more calls of generateId
RECURSIVE IdDraws(_, _)
IdDraws(earlier, m) ==
    IF m = 0 THEN {earlier}
    ELSE UNION {{Append(d, t) : t \in GenerateIdOutcomes(d)} : d \in IdDraws(earlier, m - 1)}

\* The license type parseDRM recognises in a license_type value
DrmTypeOf(value) ==
    CASE value = "com.widevine.alpha" -> "widevine"
      [] value = "com.microsoft.playready" -> "playready"
      [] value = "fairplay" -> "fairplay"
      [] value = "org.w3.clearkey" -> "clearkey"
      [] OTHER -> Undefined

\* parseDRM(lines, currentIndex), currentIndex 0-based: the directives among
\* the (up to) five lines before currentIndex; a later line overrides an earlier one
RECURSIVE ParseDRMFrom(_, _, _, _)
ParseDRMFrom(lines, i, currentIndex, acc) ==
    IF ~(i < currentIndex) THEN acc
    ELSE LET line == lines[i + 1]
             a1 == IF IncludesDirective(line, "license_type")
                   THEN [acc EXCEPT !.foundDRM = TRUE,
                                    !.type = IF DrmTypeOf(line.value) # Undefined
                                             THEN DrmTypeOf(line.value) ELSE @]
                   ELSE acc
             a2 == IF IncludesDirective(line, "license_key")
                   THEN [a1 EXCEPT !.foundDRM = TRUE, !.licenseServer = line.value]
                   ELSE a1
             a3 == IF IncludesDirective(line, "http-user-agent")
                   THEN [a2 EXCEPT !.foundHeaders = TRUE, !.userAgent = line.value]
                   ELSE a2
             a4 == IF IncludesDirective(line, "http-referrer")
                   THEN [a3 EXCEPT !.foundHeaders = TRUE, !.referer = line.value]
                   ELSE a3
         IN  ParseDRMFrom(lines, i + 1, currentIndex, a4)

\* undefined in a property that otherwise holds an object (drm, headers)
UndefinedObject == [undefined |-> TRUE]

\* The initial values of drm, headers, foundDRM and foundHeaders
NothingFound ==
    [foundDRM |-> FALSE, foundHeaders |-> FALSE, type |-> Undefined,
     licenseServer |-> Undefined, userAgent |-> Undefined, referer |-> Undefined]

\* return { drm: foundDRM ? drm : undefined, headers: foundHeaders ? headers : undefined }
DRMResult(found) ==
    [drm |-> IF found.foundDRM
             THEN [type |-> found.type, licenseServer |-> found.licenseServer]
             ELSE UndefinedObject,
     headers |-> IF found.foundHeaders
                 THEN [userAgent |-> found.userAgent, referer |-> found.referer]
                 ELSE UndefinedObject]

\* Mutant of parseDRM: the scan starts six lines before currentIndex
parseDRMSixBack(lines, currentIndex) ==
    LET from == IF currentIndex - 6 > 0 THEN currentIndex - 6 ELSE 0
    IN  DRMResult(ParseDRMFrom(lines, from, currentIndex, NothingFound))

parseDRM(lines, currentIndex) ==
    LET from == IF currentIndex - 5 > 0 THEN currentIndex - 5 ELSE 0
    IN  DRMResult(ParseDRMFrom(lines, from, currentIndex, NothingFound))

\* parseExtInf(line): the Partial<Channel> of an "#EXTINF:" line
parseExtInf(line) ==
    [ tvgId |-> line.tvgId,
      tvgName |-> line.tvgName,
      logo |-> line.logo,
      group |-> line.group,
      quality |-> IF line.quality # Undefined THEN ToUpperCase(line.quality) ELSE Undefined,
      name |-> line.name ]

\* {}: a currentChannel with no property set
EmptyChannel ==
    [tvgId |-> Undefined, tvgName |-> Undefined, logo |-> Undefined, group |-> Undefined,
     quality |-> Undefined, name |-> Undefined]

\* a || b on strings
OrElse(a, b) == IF Truthy(a) THEN a ELSE b

\* categoriesSet.add(group): a Set keeps insertion order and no duplicate
SetAdd(seq, x) == IF \E k \in 1..Len(seq) : seq[k] = x THEN seq ELSE Append(seq, x)

\* The collation of the group names of the inputs: a.localeCompare(b) is the
\* sign of the difference of the ranks
LocaleOrder == <<"All", "News", "Uncategorized", "World">>
LocaleRank(s) == CHOOSE k \in 1..Len(LocaleOrder) : LocaleOrder[k] = s
LocaleCompare(a, b) ==
    IF LocaleRank(a) < LocaleRank(b) THEN -1
    ELSE IF LocaleRank(a) > LocaleRank(b) THEN 1 ELSE 0

\* A comparator that lacks the two "Uncategorized" cases
CompareCategoriesPlain(a, b) == LocaleCompare(a, b)

\* The comparator of the categories sort
CompareCategories(a, b) ==
    IF a = "Uncategorized" THEN 1
    ELSE IF b = "Uncategorized" THEN -1
    ELSE LocaleCompare(a, b)

\* Array.prototype.sort(compare): a stable sort; x goes before the first
\* element it compares less than
RECURSIVE InsertSorted(_, _)
InsertSorted(sorted, x) ==
    IF sorted = <<>> THEN <<x>>
    ELSE IF CompareCategories(x, Head(sorted)) < 0 THEN <<x>> \o sorted
    ELSE <<Head(sorted)>> \o InsertSorted(Tail(sorted), x)

RECURSIVE SortCategories(_)
SortCategories(seq) ==
    IF seq = <<>> THEN <<>>
    ELSE InsertSorted(SortCategories(SubSeq(seq, 1, Len(seq) - 1)), seq[Len(seq)])

\* The locals of parseM3U before the loop; emitted logs, for every
\* channels.push, the values of extinfIndex and i at the push
ParseStart ==
    [channels |-> <<>>, categoriesSet |-> <<>>, currentChannel |-> EmptyChannel,
     extinfIndex |-> -1, emitted |-> <<>>]

\* The Channel literal built at a URL line, lines[i] (i 0-based)
NewChannel(lines, i, currentChannel, id) ==
    [ id |-> id,
      name |-> OrElse(currentChannel.name, "Unknown Channel"),
      url |-> lines[i + 1].text,
      logo |-> currentChannel.logo,
      group |-> OrElse(currentChannel.group, "Uncategorized"),
      tvgId |-> currentChannel.tvgId,
      tvgName |-> currentChannel.tvgName,
      quality |-> currentChannel.quality,
      drm |-> parseDRM(lines, i).drm,
      headers |-> parseDRM(lines, i).headers,
      isLive |-> TRUE ]

\* A loop body that keeps currentChannel after a push
ParseLineKeeping(lines, i, st, draws) ==
    LET line == lines[i + 1] IN
    IF StartsWithExtInf(line)
    THEN [st EXCEPT !.currentChannel = parseExtInf(line), !.extinfIndex = i]
    ELSE IF ~LineIsEmpty(line) /\ ~StartsWithHash(line) /\ Truthy(st.currentChannel.name)
    THEN LET channel == NewChannel(lines, i, st.currentChannel, draws[Len(st.channels) + 1])
         IN  [st EXCEPT !.channels = Append(@, channel),
                        !.categoriesSet = SetAdd(@, channel.group),
                        !.emitted = Append(@, <<st.extinfIndex, i>>)]
    ELSE st

\* One iteration of the loop of parseM3U, on lines[i] (i 0-based)
ParseLine(lines, i, st, draws) ==
    LET line == lines[i + 1] IN
    IF StartsWithExtInf(line)
    THEN [st EXCEPT !.currentChannel = parseExtInf(line), !.extinfIndex = i]
    ELSE IF ~LineIsEmpty(line) /\ ~StartsWithHash(line) /\ Truthy(st.currentChannel.name)
    THEN LET channel == NewChannel(lines, i, st.currentChannel, draws[Len(st.channels) + 1])
         IN  [st EXCEPT !.channels = Append(@, channel),
                        !.categoriesSet = SetAdd(@, channel.group),
                        !.currentChannel = EmptyChannel,
                        !.extinfIndex = -1,
                        !.emitted = Append(@, <<st.extinfIndex, i>>)]
    ELSE st

RECURSIVE ParseLoop(_, _, _, _)
ParseLoop(lines, i, st, draws) ==
    IF ~(i < Len(lines)) THEN st
    ELSE ParseLoop(lines, i + 1, ParseLine(lines, i, st, draws), draws)

\* The number of generateId calls of one parse: one per channel, one for the playlist
IdCalls(lines) == Len(ParseLoop(lines, 0, ParseStart, [k \in 1..Len(lines) |-> 0]).channels) + 1

\* parseM3U(content, playlistName), with the tokens its generateId calls
\* return in call order and the value of Date.now(); emitted is the push log
parseM3U(lines, playlistName, draws, now) ==
    LET st == ParseLoop(lines, 0, ParseStart, draws)
    IN  [ playlist |-> [ id |-> draws[Len(st.channels) + 1],
                         name |-> playlistName,
                         channels |-> st.channels,
                         categories |-> SortCategories(st.categoriesSet),
                         lastUpdated |-> now ],
          emitted |-> st.emitted ]

(* ------------------------------ fetch --------------------------------- *)
\* The outcome of fetch(url) and response.text(): threw names the call
\* that rejected ("none", "fetch", "text"); ok is response.ok; body is the
\* text, by its lines.

\* content.includes("#EXTM3U"): the header line is the only line of the
\* inputs with that text
IncludesExtM3U(body) ==
    \E k \in 1..Len(body) : body[k].kind = "comment" /\ body[k].prop = "EXTM3U"

\* content.includes("#EXTINF")
IncludesExtInf(body) == \E k \in 1..Len(body) : body[k].kind = "extinf"

NullContent == [null |-> TRUE]
Content(body) == [null |-> FALSE, content |-> body]

\* A fetchPlaylistContent that does not look at response.ok
fetchPlaylistContentAnyStatus(response) ==
    IF response.threw # "none" THEN NullContent
    ELSE IF IncludesExtM3U(response.body) \/ IncludesExtInf(response.body)
    THEN Content(response.body)
    ELSE NullContent

\* fetchPlaylistContent(url): the body, or null
fetchPlaylistContent(response) ==
    IF response.threw = "fetch" THEN NullContent
    ELSE IF response.ok
    THEN IF response.threw = "text" THEN NullContent
         ELSE IF IncludesExtM3U(response.body) \/ IncludesExtInf(response.body)
         THEN Content(response.body)
         ELSE NullContent
    ELSE NullContent

FetchError ==
    [message |-> "Could not fetch playlist. The server may be blocking requests or require specific app authentication.",
     code |-> 0]

\* urlParts[urlParts.length - 1].split("?")[0], on the URLs of the inputs
FileNameOf(url) ==
    CASE url = "http://host/list.m3u" -> "list.m3u"
      [] url = "http://host/tv.m3u8?token=1" -> "tv.m3u8"
      [] OTHER -> ""

\* fileName.replace(".m3u", "").replace(".m3u8", ""): replace() removes the
\* first occurrence only, so ".m3u" goes first and leaves the "8"
ReplaceM3U(fileName) ==
    CASE fileName = "list.m3u" -> "list"
      [] fileName = "tv.m3u8" -> "tv8"
      [] OTHER -> fileName

\* The number of generateId calls of fetchAndParseM3U for a response
FetchIdCalls(response) ==
    IF fetchPlaylistContent(response).null THEN 0
    ELSE IdCalls(fetchPlaylistContent(response).content)

\* fetchAndParseM3U(url): [thrown, result]; !content holds for null only,
\* an accepted body is never the empty string
fetchAndParseM3U(url, response, draws, now) ==
    LET got == fetchPlaylistContent(response)
    IN  IF got.null
        THEN [thrown |-> FetchError, result |-> NullResult]
        ELSE LET playlistName == OrElse(ReplaceM3U(FileNameOf(url)), "Remote Playlist")
                 r == parseM3U(got.content, playlistName, draws, now)
             IN  [thrown |-> NoError,
                  result |-> PlaylistResult(SetProp(r.playlist, "url", url))]

(* --------------------------- PlaylistContext -------------------------- *)
\* ctx is the React state of PlaylistProvider: playlist, playlists,
\* activePlaylistId, isLoadingPlaylist, error.

\* The state after loadInitialData on an empty store
CtxStart ==
    [playlist |-> NullResult, playlists |-> <<>>, activePlaylistId |-> Null,
     isLoadingPlaylist |-> FALSE, error |-> Null]

\* A load that removes the active id before its fetch resolves
BeforePlaylistClearing(s) == removeItem(StartIO(s), ActiveKey, NoFault)

\* The store calls loadPlaylistFromUrl, loadPlaylistFromFile and
\* performAutoRefresh issue before fetchAndParseM3U / parseM3U has returned: none
BeforePlaylist(s) == StartIO(s)

\* setIsLoadingPlaylist(true); setError(null)
LoadBegin(ctx0) == [ctx0 EXCEPT !.isLoadingPlaylist = TRUE, !.error = Null]

\* catch (err) { setError(err.message || fallback); throw err } finally { ... }
LoadFailed(ctx0, err, fallback) ==
    [ctx0 EXCEPT !.error = OrElse(err.message, fallback), !.isLoadingPlaylist = FALSE]

\* loadPlaylistFromUrl / loadPlaylistFromFile from savePlaylist on: [ctx, io, thrown]
LoadPersist(ctx0, s, newPlaylist, fallback, plan) ==
    LET sv == savePlaylist(s, newPlaylist, "m3u", Undefined, plan)
    IN  IF sv.thrown # NoError
        THEN [ctx |-> LoadFailed(ctx0, sv.thrown, fallback), io |-> sv.io, thrown |-> sv.thrown]
        ELSE LET got == getPlaylistList(sv.io, plan)
             IN  [ctx |-> [ctx0 EXCEPT !.playlist = PlaylistResult(newPlaylist),
                                       !.activePlaylistId = newPlaylist.id,
                                       !.playlists = got.value,
                                       !.isLoadingPlaylist = FALSE],
                  io |-> got.io,
                  thrown |-> NoError]

\* performAutoRefresh from savePlaylist on; a throw is logged and dropped
RefreshPersist(ctx0, s, newPlaylist, plan) ==
    LET sv == savePlaylist(s, newPlaylist, "m3u", Undefined, plan)
    IN  IF sv.thrown # NoError
        THEN [ctx |-> ctx0, io |-> sv.io, thrown |-> NoError]
        ELSE LET got == getPlaylistList(sv.io, plan)
             IN  [ctx |-> [ctx0 EXCEPT !.playlist = PlaylistResult(newPlaylist),
                                       !.playlists = got.value],
                  io |-> got.io,
                  thrown |-> NoError]

\* playlists.find(p => p.id === activePlaylistId): its 1-based index, or 0
CurrentPlaylistInfo(ctx0) ==
    IF \E k \in 1..Len(ctx0.playlists) : ctx0.playlists[k].id = ctx0.activePlaylistId
    THEN CHOOSE k \in 1..Len(ctx0.playlists) :
             /\ ctx0.playlists[k].id = ctx0.activePlaylistId
             /\ \A j \in 1..(k - 1) : ctx0.playlists[j].id # ctx0.activePlaylistId
    ELSE 0

\* new Map(); for (const ch of channels) map.set(ch.id, ch): a later channel
\* replaces an earlier one under the same id
RECURSIVE MapSetById(_, _, _)
MapSetById(channels, k, map) ==
    IF k > Len(channels) THEN map
    ELSE MapSetById(channels, k + 1,
             [x \in (DOMAIN map) \cup {channels[k].id} |->
                 IF x = channels[k].id THEN channels[k] ELSE map[x]])

\* channelIndexMap, the memo of [playlist]: recomputed from the playlist state
channelIndexMap(ctx0) ==
    IF ctx0.playlist.null THEN <<>>
    ELSE MapSetById(ctx0.playlist.playlist.channels, 1, <<>>)

\* getChannelById(id): channelIndexMap.get(id)
getChannelById(ctx0, id) ==
    IF id \in DOMAIN channelIndexMap(ctx0)
    THEN [found |-> TRUE, channel |-> channelIndexMap(ctx0)[id]]
    ELSE [found |-> FALSE]

\* Mutant of CategoryPush: arr.unshift(ch) in place of arr.push(ch)
CategoryUnshift(map, group, ch) ==
    [g \in (DOMAIN map) \cup {group} |->
        IF g # group THEN map[g]
        ELSE IF group \in DOMAIN map THEN <<ch>> \o map[group] ELSE <<ch>>]

\* const arr = map.get(group); if (arr) arr.push(ch); else map.set(group, [ch])
CategoryPush(map, group, ch) ==
    [g \in (DOMAIN map) \cup {group} |->
        IF g # group THEN map[g]
        ELSE IF group \in DOMAIN map THEN Append(map[group], ch) ELSE <<ch>>]

\* for (const ch of channels) { const group = ch.group || ""; ... }
RECURSIVE MapPushByGroup(_, _, _)
MapPushByGroup(channels, k, map) ==
    IF k > Len(channels) THEN map
    ELSE MapPushByGroup(channels, k + 1,
             CategoryPush(map, OrElse(channels[k].group, ""), channels[k]))

\* categoryIndexMap, the memo of [playlist]
categoryIndexMap(ctx0) ==
    IF ctx0.playlist.null THEN <<>>
    ELSE MapPushByGroup(ctx0.playlist.playlist.channels, 1, <<>>)

\* getChannelsByCategory(category): no playlist gives []; "All" gives every
\* channel; any other name gives categoryIndexMap.get(category) || []
getChannelsByCategory(ctx0, category) ==
    IF ctx0.playlist.null THEN <<>>
    ELSE IF category = "All" THEN ctx0.playlist.playlist.channels
    ELSE IF category \in DOMAIN categoryIndexMap(ctx0)
         THEN categoryIndexMap(ctx0)[category]
         ELSE <<>>

(* ------------------------- hls-quality-parser ------------------------- *)
\* A line of the manifest, after split("\n") and trim():
\*   kind "stream-inf"  a line starting with "#EXT-X-STREAM-INF:", with the
\*                      values its attribute list gives BANDWIDTH, RESOLUTION
\*                      and NAME (Undefined: no such attribute);
\*   kind "comment"     any other line starting with "#";
\*   kind "url", "blank" as in the playlist text.
\* A number is [nan, value]: parseInt and Number give NaN for text that is
\* no number.

Num(n) == [nan |-> FALSE, value |-> n]
NaN == [nan |-> TRUE, value |-> 0]

\* parseInt(s, 10) on the BANDWIDTH values of the inputs
ParseInt(s) ==
    CASE s = "0" -> Num(0)
      [] s = "2000000" -> Num(2000000)
      [] s = "2500000" -> Num(2500000)
      [] OTHER -> NaN

\* attributes.RESOLUTION.split("x").map(Number)
ParseResolution(s) ==
    CASE s = "1280x720" -> [known |-> TRUE, width |-> Num(1280), height |-> Num(720)]
      [] s = "320x240" -> [known |-> TRUE, width |-> Num(320), height |-> Num(240)]
      [] OTHER -> [known |-> TRUE, width |-> NaN, height |-> NaN]

\* A variant without the resolution property
NoResolution == [known |-> FALSE, width |-> NaN, height |-> NaN]

\* a > b, a >= b and truthiness on numbers: false whenever NaN is involved
GreaterThan(a, b) == ~a.nan /\ ~b.nan /\ a.value > b.value
AtLeast(a, n) == ~a.nan /\ a.value >= n
TruthyNumber(a) == ~a.nan /\ a.value # 0

\* Math.round(bandwidth / 1000)
RoundKbps(bandwidth) ==
    IF bandwidth.nan THEN NaN ELSE Num((bandwidth.value + 500) \div 1000)

\* parseAttributes(line.substring(...)): the attributes of the directive
parseAttributes(line) ==
    [BANDWIDTH |-> line.BANDWIDTH, RESOLUTION |-> line.RESOLUTION, NAME |-> line.NAME]

\* resolveUrl(url, baseUrl) for the base "http://host/live/master.m3u8"
resolveUrl(url, baseUrl) ==
    CASE url = "http://cdn/hi.m3u8" -> url
      [] url = "/lo.m3u8" -> "http://host/lo.m3u8"
      [] url = "mid.m3u8" -> "http://host/live/mid.m3u8"
      [] OTHER -> url

\* The variant of the directive at lines[i] (i 0-based) and its urlLine
NewVariant(line, urlLine, baseUrl) ==
    LET attributes == parseAttributes(line)
    IN  [ bandwidth |-> ParseInt(OrElse(attributes.BANDWIDTH, "0")),
          url |-> resolveUrl(urlLine.text, baseUrl),
          resolution |-> IF Truthy(attributes.RESOLUTION)
                         THEN ParseResolution(attributes.RESOLUTION) ELSE NoResolution,
          name |-> IF Truthy(attributes.NAME) THEN attributes.NAME ELSE Undefined ]

\* The first loop of parseHLSManifest: urlLine is lines[i + 1], if any
RECURSIVE VariantsFrom(_, _, _, _)
VariantsFrom(lines, i, baseUrl, variants) ==
    IF ~(i < Len(lines)) THEN variants
    ELSE LET line == lines[i + 1]
             hasUrlLine == i + 1 < Len(lines)
                              /\ ~LineIsEmpty(lines[i + 2])
                              /\ lines[i + 2].kind = "url"
         IN  VariantsFrom(lines, i + 1, baseUrl,
                 IF line.kind = "stream-inf" /\ hasUrlLine
                 THEN Append(variants, NewVariant(line, lines[i + 2], baseUrl))
                 ELSE variants)

\* (a, b) => b.bandwidth - a.bandwidth, with NaN read as 0 by sort
CompareVariants(a, b) ==
    IF a.bandwidth.nan \/ b.bandwidth.nan THEN 0
    ELSE b.bandwidth.value - a.bandwidth.value

\* The comparator is consistent on the variants when it is transitive on
\* them; with NaN it calls a variant equal to two that differ
ConsistentOn(variants) ==
    \A i, j, k \in 1..Len(variants) :
        (CompareVariants(variants[i], variants[j]) = 0
            /\ CompareVariants(variants[j], variants[k]) = 0)
        => CompareVariants(variants[i], variants[k]) = 0

RECURSIVE InsertVariant(_, _)
InsertVariant(sorted, x) ==
    IF sorted = <<>> THEN <<x>>
    ELSE IF CompareVariants(x, Head(sorted)) < 0 THEN <<x>> \o sorted
    ELSE <<Head(sorted)>> \o InsertVariant(Tail(sorted), x)

RECURSIVE StableSort(_)
StableSort(variants) ==
    IF variants = <<>> THEN <<>>
    ELSE InsertVariant(StableSort(SubSeq(variants, 1, Len(variants) - 1)),
                       variants[Len(variants)])

Orders(n) == {p \in [1..n -> 1..n] : \A i, j \in 1..n : i # j => p[i] # p[j]}

\* variants.sort(compare): the stable sorted order, and any order at all
\* when the comparator is not consistent (the order is then left to the engine)
SortOutcomes(variants) ==
    IF ConsistentOn(variants) THEN {StableSort(variants)}
    ELSE {[k \in 1..Len(variants) |-> variants[p[k]]] : p \in Orders(Len(variants))}

\* `${height}p`
HeightLabel(height) ==
    IF height.nan THEN "NaNp" ELSE IF height.value = 240 THEN "240p" ELSE "0p"

\* variants.map(...): label and resolution key of a variant
QualityOf(variant) ==
    LET key ==
          IF variant.resolution.known
          THEN LET height == variant.resolution.height
               IN  IF AtLeast(height, 2160) THEN <<"4K", "2160p">>
                   ELSE IF AtLeast(height, 1440) THEN <<"1440p", "1440p">>
                   ELSE IF AtLeast(height, 1080) THEN <<"1080p", "1080p">>
                   ELSE IF AtLeast(height, 720) THEN <<"720p", "720p">>
                   ELSE IF AtLeast(height, 480) THEN <<"480p", "480p">>
                   ELSE IF AtLeast(height, 360) THEN <<"360p", "360p">>
                   ELSE <<HeightLabel(height), HeightLabel(height)>>
          ELSE LET kbps == RoundKbps(variant.bandwidth)
               IN  IF AtLeast(kbps, 8000) THEN <<"High", "High Quality">>
                   ELSE IF AtLeast(kbps, 4000) THEN <<"Medium-High", "Medium-High">>
                   ELSE IF AtLeast(kbps, 2000) THEN <<"Medium", "Medium Quality">>
                   ELSE IF AtLeast(kbps, 1000) THEN <<"Low", "Low Quality">>
                   ELSE <<"Very Low", "Very Low Quality">>
    IN  [ label |-> OrElse(variant.name, key[1]),
          resolution |-> key[2],
          bitrate |-> variant.bandwidth,
          url |-> variant.url ]

\* acc.find(q => q.resolution === quality.resolution): 1-based index, or 0
FindResolution(acc, resolution) ==
    IF \E k \in 1..Len(acc) : acc[k].resolution = resolution
    THEN CHOOSE k \in 1..Len(acc) :
             /\ acc[k].resolution = resolution
             /\ \A j \in 1..(k - 1) : acc[j].resolution # resolution
    ELSE 0

\* One step of qualities.reduce(...)
ReduceStep(acc, quality) ==
    LET index == FindResolution(acc, quality.resolution)
    IN  IF index = 0 THEN Append(acc, quality)
        ELSE IF TruthyNumber(quality.bitrate) /\ TruthyNumber(acc[index].bitrate)
                    /\ GreaterThan(quality.bitrate, acc[index].bitrate)
        THEN [acc EXCEPT ![index] = quality]
        ELSE acc

RECURSIVE Reduce(_, _, _)
Reduce(list, k, acc) ==
    IF k > Len(list) THEN acc
    ELSE Reduce(list, k + 1, ReduceStep(acc, list[k]))

\* parseHLSManifest(content, baseUrl), for one outcome of the sort
parseHLSManifest(lines, baseUrl, sorted) ==
    IF Len(VariantsFrom(lines, 0, baseUrl, <<>>)) = 0 THEN <<>>
    ELSE Reduce([k \in 1..Len(sorted) |-> QualityOf(sorted[k])], 1, <<>>)

\* A parseHLSQualities whose catch block rethrows
HLSCatchRethrow(error) == [thrown |-> error, value |-> <<>>]

\* catch (error) { console.warn(...); return [] }
HLSCatch(error) == [thrown |-> NoError, value |-> <<>>]

NetworkError == [message |-> "Network request failed", code |-> 0]

\* parseHLSQualities(masterPlaylistUrl): [thrown, value]
parseHLSQualities(masterPlaylistUrl, response, sorted) ==
    IF response.threw = "fetch" THEN HLSCatch(NetworkError)
    ELSE IF ~response.ok THEN [thrown |-> NoError, value |-> <<>>]
    ELSE IF response.threw = "text" THEN HLSCatch(NetworkError)
    ELSE [thrown |-> NoError,
          value |-> parseHLSManifest(response.body, masterPlaylistUrl, sorted)]

(* -------------------------------- inputs ------------------------------ *)

PlaylistIds == {"a", "b"}

\* Channel counts: none, exact multiples of CHUNK_SIZE, and one past a multiple
Counts == {k * CHUNK_SIZE : k \in 0..MaxChunks} \cup {(MaxChunks - 1) * CHUNK_SIZE + 1}

LogoOf(j) == <<"x.png", Undefined, "", "y.png">>[(j % 4) + 1]
GroupOf(j) == <<"News", "Sports", "Uncategorized">>[(j % 3) + 1]
NameOf(j) == <<"CNN", "BBC One">>[(j % 2) + 1]

\* The channel of 0-based index j in the playlist pid, shaped as parseM3U builds it
InputChannel(pid, j) ==
    [ id |-> <<pid, j>>,
      name |-> NameOf(j),
      url |-> "http://cdn/live.m3u8",
      logo |-> LogoOf(j),
      group |-> GroupOf(j),
      tvgId |-> "tvg",
      tvgName |-> Undefined,
      quality |-> "HD",
      drm |-> [type |-> "widevine", licenseServer |-> "https://license"],
      headers |-> Undefined,
      isLive |-> TRUE ]

\* The sorted distinct groups of a channel list, "Uncategorized" last
CategoriesOf(channels) ==
    SelectSeq(<<"News", "Sports", "Uncategorized">>,
              LAMBDA g : \E k \in 1..Len(channels) : channels[k].group = g)

\* A playlist of n channels: "a" was fetched from a URL, "b" parsed from a file
InputPlaylist(pid, n) ==
    LET channels == [k \in 1..n |-> InputChannel(pid, k - 1)]
    IN  [ id |-> pid,
          name |-> IF pid = "a" THEN "a" ELSE "My Playlist",
          url |-> IF pid = "a" THEN "http://host/a.m3u" ELSE Undefined,
          channels |-> channels,
          categories |-> CategoriesOf(channels),
          lastUpdated |-> 1 ]

\* The input playlists, by id and channel count
Playlists == [d \in PlaylistIds \X Counts |-> InputPlaylist(d[1], d[2])]

\* The errors a rejecting call raises: the two shapes of the store's
\* out-of-space signal, and any other error
FaultErrors == {ErrDiskFullMessage, ErrSqliteFull, ErrOther}

\* The fault plans open to an operation that issues at most maxCalls store
\* calls: only the empty one once the store no longer injects faults
Plans(maxCalls, errors) ==
    IF inject
    THEN {NoFault} \cup
         {[from |-> f, persist |-> p, err |-> e] :
             f \in 1..maxCalls, p \in BOOLEAN, e \in errors}
    ELSE {NoFault}

\* A plan is taken when its first fault falls on a call the operation issued
Takes(plan, log) == plan.from <= Len(log)

Clean(log) == \A k \in 1..Len(log) : log[k].err = NoError

(* ------------------------------ state machine ------------------------- *)

\* The value under a key, as a sequence: empty when the key is absent
Opt(s, key) == IF key \in DOMAIN s THEN <<s[key]>> ELSE <<>>

\* The keys of the chunk records of a store
ChunkKeysIn(s) == {key \in DOMAIN s : key[1] = STORAGE_KEYS.PLAYLIST_CHUNKS}

\* The summary list, the active id and the chunk keys of a store
Summary(s) == [list |-> Opt(s, PlaylistsKey), active |-> Opt(s, ActiveKey),
               chunks |-> ChunkKeysIn(s)]

\* The record of a completed operation: its name, target id, channel count
\* (save), the error it threw, its store calls, the summary it started from
CallRecord(op, id, n, thrown, log) ==
    [op |-> op, id |-> id, n |-> n, thrown |-> thrown, log |-> log, before |-> Summary(store)]

\* The record of a completed updatePlaylistInfo: also the name and url it was given
UpdateRecord(id, name, url, thrown, log) ==
    [op |-> "update", id |-> id, n |-> 0, thrown |-> thrown, log |-> log,
     before |-> Summary(store), name |-> name, url |-> url]

NoCall == [op |-> "none", id |-> Undefined, n |-> 0, thrown |-> NoError, log |-> <<>>,
           before |-> Summary(<<>>)]

\* parseM3U has not been called
NoParse == [called |-> FALSE]

\* The variables of the parser while the behaviour exercises the engine only
ParserIdle == content = <<>> /\ parsed = NoParse /\ issued = <<>>

\* No context operation has been started
NoResponse == [threw |-> "pending", ok |-> FALSE, body |-> <<>>]
NoTask ==
    [op |-> "none", pc |-> "idle", url |-> Undefined, response |-> NoResponse,
     fetchThrown |-> NoError, thrown |-> NoError, produced |-> NullResult,
     before |-> <<>>, memBefore |-> CtxStart, log |-> <<>>]

\* The variables of the context while the behaviour does not exercise it
CtxIdle == ctx = CtxStart /\ task = NoTask

\* parseHLSQualities has not been called
NoQualities == [called |-> FALSE, thrown |-> NoError, value |-> <<>>]

\* The variables of the quality resolver while the behaviour does not exercise it
HlsIdle == manifest = NoResponse /\ qualities = NoQualities

\* A savePlaylist call that has not started
NoFlight == [pc |-> "idle", n |-> 0, i |-> 0, playlists |-> <<>>]

\* No savePlaylist call runs beside another
FlightIdle == flight = [pid \in {"a", "b"} |-> NoFlight]
RecentIdle == added = <<>>

\* The variables of the engine while the behaviour exercises it not at all
EngineIdle ==
    /\ store = <<>>
    /\ call = NoCall
    /\ saved = NoCall
    /\ ret = NullResult
    /\ opsLeft = 0
    /\ inject = FALSE

\* No store call rejects: MaxOps operations
Init ==
    /\ store = <<>>
    /\ call = NoCall
    /\ saved = NoCall
    /\ ret = NullResult
    /\ opsLeft = MaxOps
    /\ inject = FALSE
    /\ ParserIdle
    /\ CtxIdle
    /\ HlsIdle
    /\ FlightIdle
    /\ RecentIdle

\* One operation of the behaviour meets rejecting store calls
InitFaults ==
    /\ store = <<>>
    /\ call = NoCall
    /\ saved = NoCall
    /\ ret = NullResult
    /\ opsLeft = MaxOps - 1
    /\ inject = TRUE
    /\ ParserIdle
    /\ CtxIdle
    /\ HlsIdle
    /\ FlightIdle
    /\ RecentIdle

Save ==
    /\ opsLeft > 0
    /\ UNCHANGED nonEngineVars
    /\ \E pid \in PlaylistIds, n \in Counts, plan \in Plans(MaxChunks + 5, FaultErrors) :
          \E r \in {savePlaylist(store, Playlists[<<pid, n>>], "m3u", Undefined, plan)} :
              /\ Takes(plan, r.io.log)
              /\ store' = r.io.store
              /\ call' = CallRecord("save", pid, n, r.thrown, r.io.log)
              /\ saved' = call'
              /\ ret' = NullResult
              /\ opsLeft' = opsLeft - 1
              /\ inject' = (inject /\ Clean(r.io.log))

\* A load changes no record, so one load is explored after each sequence of
\* the other operations, and ends the behaviour
Load ==
    /\ call.op # "load"
    /\ UNCHANGED nonEngineVars
    /\ \E playlistId \in PlaylistIds \cup {Undefined}, plan \in Plans(MaxChunks + 2, {ErrOther}) :
          \E r \in {getPlaylist(store, playlistId, plan)} :
              /\ Takes(plan, r.io.log)
              /\ store' = r.io.store
              /\ call' = CallRecord("load", playlistId, 0, r.thrown, r.io.log)
              /\ ret' = r.ret
              /\ opsLeft' = 0
              /\ inject' = FALSE
              /\ UNCHANGED saved

Delete ==
    /\ opsLeft > 0
    /\ UNCHANGED nonEngineVars
    /\ \E playlistId \in PlaylistIds, plan \in Plans(6, {ErrOther}) :
          \E io \in {deletePlaylist(store, playlistId, plan)} :
              /\ Takes(plan, io.log)
              /\ store' = io.store
              /\ call' = CallRecord("delete", playlistId, 0, NoError, io.log)
              /\ saved' = NoCall
              /\ ret' = NullResult
              /\ opsLeft' = opsLeft - 1
              /\ inject' = (inject /\ Clean(io.log))

UpdateInfo ==
    /\ opsLeft > 0
    /\ UNCHANGED nonEngineVars
    /\ \E playlistId \in PlaylistIds, url \in {Undefined, "http://host/new.m3u"},
          plan \in Plans(4, {ErrOther}) :
          \E r \in {updatePlaylistInfo(store, playlistId, "Renamed", url, plan)} :
              /\ Takes(plan, r.io.log)
              /\ store' = r.io.store
              /\ call' = UpdateRecord(playlistId, "Renamed", url, r.thrown, r.io.log)
              /\ saved' = NoCall
              /\ ret' = NullResult
              /\ opsLeft' = opsLeft - 1
              /\ inject' = (inject /\ Clean(r.io.log))

Next == Save \/ Load \/ Delete \/ UpdateInfo

Spec == Init /\ [][Next]_vars

FaultSpec == InitFaults /\ [][Next]_vars

(* --------------------------- parser state machine --------------------- *)
\* The lines of the input texts
ExtInf(name, group) ==
    [kind |-> "extinf", tvgId |-> Undefined, tvgName |-> Undefined, logo |-> Undefined,
     group |-> group, quality |-> Undefined, name |-> name]
UrlLine(text) == [kind |-> "url", text |-> text]
BlankLine == [kind |-> "blank"]
Comment(prop, value) == [kind |-> "comment", prop |-> prop, value |-> value]

\* n lines that are neither entry, URL nor directive
Padding(n) == [k \in 1..n |-> IF k % 2 = 1 THEN Comment(Undefined, Undefined) ELSE BlankLine]

\* group-title of the input lines: absent, empty, or a name
InputGroups == {Undefined, "", "News", "World", "Uncategorized"}

\* The pieces texts are made of: every single line, and whole entries
LineBlocks ==
    {<<ExtInf("One", g)>> : g \in InputGroups}
        \cup {<<ExtInf(Undefined, "News")>>,
              <<UrlLine("http://host/one.m3u8")>>,
              <<BlankLine>>,
              <<Comment(Undefined, Undefined)>>,
              <<Comment("license_type", "com.widevine.alpha")>>,
              <<Comment("http-user-agent", "Agent/1.0")>>,
              Padding(3), Padding(4)}
EntryBlocks == {<<ExtInf("Two", g), UrlLine("http://host/two.m3u8")>> : g \in InputGroups}
Blocks == LineBlocks \cup EntryBlocks

RECURSIVE Flatten(_)
Flatten(blocks) == IF blocks = <<>> THEN <<>> ELSE Head(blocks) \o Flatten(Tail(blocks))

\* The input texts: up to MaxBlocks pieces
Texts == {Flatten(bs) : bs \in UNION {[1..n -> Blocks] : n \in 0..MaxBlocks}}

\* Values of Date.now()
Clock == {1}

ParseInit ==
    /\ EngineIdle
    /\ content \in Texts
    /\ parsed = NoParse
    /\ issued = <<>>
    /\ CtxIdle
    /\ HlsIdle
    /\ FlightIdle
    /\ RecentIdle

\* parseM3U(content), once more while the behaviour has generateId calls
\* left: every outcome of its generateId calls
Parse ==
    /\ Len(issued) + IdCalls(content) <= MaxIds
    /\ \E all \in IdDraws(issued, IdCalls(content)), now \in Clock :
          \E r \in {parseM3U(content, "My Playlist",
                               SubSeq(all, Len(issued) + 1, Len(all)), now)} :
              /\ parsed' = [called |-> TRUE, playlist |-> r.playlist, emitted |-> r.emitted]
              /\ issued' = all
    /\ UNCHANGED <<content, engineVars, ctxVars, hlsVars, raceVars, recentVars>>

ParseNext == Parse

ParseSpec == ParseInit /\ [][ParseNext]_vars

(* --------------------------- context state machine -------------------- *)
\* The URLs, the response bodies and the file texts of the inputs
Urls == {"http://host/list.m3u", "http://host/tv.m3u8?token=1"}
HeaderLine == Comment("EXTM3U", Undefined)
BodyHtml == <<UrlLine("<html>")>>
BodyHeader == <<HeaderLine>>
BodyOne == <<ExtInf("One", "News"), UrlLine("http://host/one.m3u8")>>
BodyTwo ==
    <<HeaderLine, ExtInf("One", "News"), UrlLine("http://host/one.m3u8"),
      ExtInf("Two", Undefined), UrlLine("http://host/two.m3u8")>>
BodyThree ==
    <<HeaderLine, ExtInf("One", "News"), UrlLine("http://host/one.m3u8"),
      ExtInf("Two", Undefined), UrlLine("http://host/two.m3u8"),
      ExtInf("Three", "News"), UrlLine("http://host/three.m3u8")>>
Bodies == {BodyHtml, BodyHeader, BodyOne, BodyTwo}
BodyAll ==
    <<HeaderLine, ExtInf("One", "All"), UrlLine("http://host/one.m3u8"),
      ExtInf("Two", "News"), UrlLine("http://host/two.m3u8")>>
FileTexts == {BodyHeader, BodyTwo, BodyThree, BodyAll}

\* What fetch(url) may answer
Responses ==
    {[threw |-> "fetch", ok |-> FALSE, body |-> <<>>],
     [threw |-> "text", ok |-> TRUE, body |-> <<>>]}
        \cup {[threw |-> "none", ok |-> ok, body |-> body] : ok \in BOOLEAN, body \in Bodies}

CtxInit ==
    /\ store = <<>>
    /\ call = NoCall
    /\ saved = NoCall
    /\ ret = NullResult
    /\ opsLeft = MaxCtxOps
    /\ inject = TRUE
    /\ ParserIdle
    /\ CtxIdle
    /\ HlsIdle
    /\ FlightIdle
    /\ RecentIdle

\* No context operation is in flight
Settled == task.pc \in {"idle", "done"}

\* The record of an operation as it starts
Started(op, url) ==
    [NoTask EXCEPT !.op = op, !.pc = "fetch", !.url = url, !.before = store,
                   !.memBefore = ctx]

\* loadPlaylistFromUrl(url), up to the suspension in fetch
StartUrlLoad ==
    /\ Settled
    /\ opsLeft > 0
    /\ \E url \in Urls, io \in {BeforePlaylist(store)} :
          /\ store' = io.store
          /\ ctx' = LoadBegin(ctx)
          /\ task' = Started("url", url)
    /\ opsLeft' = opsLeft - 1
    /\ UNCHANGED <<call, saved, ret, inject, parserVars, hlsVars, raceVars, recentVars>>

\* loadPlaylistFromFile(content, name), up to the call of savePlaylist:
\* parseM3U runs without suspension
StartFileLoad ==
    /\ Settled
    /\ opsLeft > 0
    /\ \E text \in FileTexts, io \in {BeforePlaylist(store)} :
       \E all \in IdDraws(issued, IdCalls(text)), now \in Clock :
       \E r \in {parseM3U(text, "My File", SubSeq(all, Len(issued) + 1, Len(all)), now)} :
          /\ store' = io.store
          /\ ctx' = LoadBegin(ctx)
          /\ task' = [Started("file", Undefined) EXCEPT !.pc = "save",
                                                         !.produced = PlaylistResult(r.playlist)]
          /\ issued' = all
    /\ opsLeft' = opsLeft - 1
    /\ UNCHANGED <<call, saved, ret, inject, content, parsed, hlsVars, raceVars, recentVars>>

\* performAutoRefresh(), up to the suspension in fetch; without a URL it
\* only notes the time of the refresh
StartRefresh ==
    /\ Settled
    /\ opsLeft > 0
    /\ ~ctx.isLoadingPlaylist
    /\ CurrentPlaylistInfo(ctx) # 0
    /\ \E url \in {Prop(ctx.playlists[CurrentPlaylistInfo(ctx)], "url")},
          io \in {BeforePlaylist(store)} :
          /\ store' = io.store
          /\ task' = IF Truthy(url) THEN Started("refresh", url)
                     ELSE [Started("refresh", url) EXCEPT !.pc = "done"]
    /\ opsLeft' = opsLeft - 1
    /\ UNCHANGED <<call, saved, ret, inject, parserVars, ctx, hlsVars, raceVars, recentVars>>

\* fetchAndParseM3U(url) settles: a throw ends loadPlaylistFromUrl in its
\* catch and finally blocks, and ends performAutoRefresh silently
Fetched ==
    /\ task.pc = "fetch"
    /\ \E response \in Responses :
       \E all \in IdDraws(issued, FetchIdCalls(response)), now \in Clock :
       \E r \in {fetchAndParseM3U(task.url, response,
                                  SubSeq(all, Len(issued) + 1, Len(all)), now)} :
          /\ issued' = all
          /\ IF r.thrown # NoError
             THEN /\ ctx' = IF task.op = "url"
                            THEN LoadFailed(ctx, r.thrown, "Failed to load playlist")
                            ELSE ctx
                  /\ task' = [task EXCEPT !.pc = "done", !.response = response,
                                          !.fetchThrown = r.thrown,
                                          !.thrown = IF task.op = "url" THEN r.thrown
                                                     ELSE NoError]
             ELSE /\ ctx' = ctx
                  /\ task' = [task EXCEPT !.pc = "save", !.response = response,
                                          !.produced = r.result]
    /\ UNCHANGED <<engineVars, content, parsed, hlsVars, raceVars, recentVars>>

\* The rest of the operation, from the call of savePlaylist to its return
Persist ==
    /\ task.pc = "save"
    /\ \E plan \in Plans(2, {ErrSqliteFull}) :
       \E r \in {IF task.op = "refresh"
                 THEN RefreshPersist(ctx, store, task.produced.playlist, plan)
                 ELSE LoadPersist(ctx, store, task.produced.playlist,
                                  IF task.op = "url" THEN "Failed to load playlist"
                                  ELSE "Failed to parse playlist", plan)} :
          /\ Takes(plan, r.io.log)
          /\ store' = r.io.store
          /\ ctx' = r.ctx
          /\ task' = [task EXCEPT !.pc = "done", !.thrown = r.thrown, !.log = r.io.log]
          /\ inject' = (inject /\ Clean(r.io.log))
    /\ UNCHANGED <<call, saved, ret, opsLeft, parserVars, hlsVars, raceVars, recentVars>>

\* cancelLoading(), while the loading flag is up
CancelLoading ==
    /\ ctx.isLoadingPlaylist
    /\ ctx' = [ctx EXCEPT !.isLoadingPlaylist = FALSE]
    /\ UNCHANGED <<engineVars, parserVars, task, hlsVars, raceVars, recentVars>>

CtxNext ==
    StartUrlLoad \/ StartFileLoad \/ StartRefresh \/ Fetched \/ Persist \/ CancelLoading

CtxSpec == CtxInit /\ [][CtxNext]_vars

(* ---------------------- quality resolver state machine ---------------- *)
\* The lines of the input manifests
StreamInf(bandwidth, resolution, name) ==
    [kind |-> "stream-inf", BANDWIDTH |-> bandwidth, RESOLUTION |-> resolution, NAME |-> name]

\* BANDWIDTH: absent, no number, or a number; RESOLUTION: absent or WxH
InputBandwidths == {Undefined, "abc", "2000000", "2500000"}
InputResolutions == {Undefined, "1280x720"}
StreamInfLines ==
    {StreamInf(b, r, Undefined) : b \in InputBandwidths, r \in InputResolutions}
        \cup {StreamInf("2500000", "320x240", "Mobile")}

\* The pieces manifests are made of: every single line, and whole variants
ManifestLineBlocks ==
    {<<l>> : l \in StreamInfLines}
        \cup {<<UrlLine("http://cdn/hi.m3u8")>>, <<UrlLine("/lo.m3u8")>>,
              <<BlankLine>>, <<Comment(Undefined, Undefined)>>}
VariantBlocks == {<<l, UrlLine("mid.m3u8")>> : l \in StreamInfLines}
ManifestBlocks == ManifestLineBlocks \cup VariantBlocks

\* The input manifests: up to MaxBlocks pieces
Manifests == {Flatten(bs) : bs \in UNION {[1..n -> ManifestBlocks] : n \in 0..MaxBlocks}}

MasterPlaylistUrl == "http://host/live/master.m3u8"

\* What fetch(masterPlaylistUrl) may answer
ManifestResponses ==
    {[threw |-> "fetch", ok |-> FALSE, body |-> <<>>],
     [threw |-> "text", ok |-> TRUE, body |-> <<>>]}
        \cup {[threw |-> "none", ok |-> ok, body |-> body] : ok \in BOOLEAN, body \in Manifests}

\* The stores the resolver runs beside: empty, or holding a saved playlist
HlsStores == {<<>>, savePlaylist(<<>>, InputPlaylist("b", 0), "m3u", Undefined, NoFault).io.store}

HlsInit ==
    /\ store \in HlsStores
    /\ call = NoCall
    /\ saved = NoCall
    /\ ret = NullResult
    /\ opsLeft = 0
    /\ inject = FALSE
    /\ ParserIdle
    /\ CtxIdle
    /\ FlightIdle
    /\ RecentIdle
    /\ manifest \in ManifestResponses
    /\ qualities = NoQualities

\* parseHLSQualities(masterPlaylistUrl): every outcome of the sort
ResolveQualities ==
    /\ ~qualities.called
    /\ \E sorted \in SortOutcomes(VariantsFrom(manifest.body, 0, MasterPlaylistUrl, <<>>)) :
       \E r \in {parseHLSQualities(MasterPlaylistUrl, manifest, sorted)} :
          qualities' = [called |-> TRUE, thrown |-> r.thrown, value |-> r.value]
    /\ UNCHANGED <<manifest, engineVars, parserVars, ctxVars, raceVars, recentVars>>

HlsNext == ResolveQualities

HlsSpec == HlsInit /\ [][HlsNext]_vars

(* ---------------------- side-by-side saves state machine -------------- *)
\* Two savePlaylist calls, one per id, started by different callers
\* (performAutoRefresh, loadPlaylistFromUrl, loadPlaylistFromFile) before the
\* other has returned.  Each call runs from one await to the next in one
\* step: AsyncStorage applies each setItem / getItem as a whole; no store call
\* rejects.

\* The channel counts of the playlists saved side by side
RaceCounts == {0, CHUNK_SIZE}

\* The playlist a call saves
RacePlaylist(pid) == InputPlaylist(pid, flight[pid].n)

\* const playlistInfo = { ... }; playlists[existingIndex] = playlistInfo, or push
UpsertPlaylistInfo(playlists, playlist, type, xtreamCredentials, meta) ==
    LET existingIndex == FindIndexById(playlists, playlist.id)
        playlistInfo ==
            [ id |-> playlist.id,
              name |-> playlist.name,
              type |-> type,
              url |-> Prop(playlist, "url"),
              xtreamCredentials |-> xtreamCredentials,
              channelCount |-> meta.totalChannels,
              lastUpdated |-> meta.lastUpdated ]
    IN  IF existingIndex >= 0
        THEN [playlists EXCEPT ![existingIndex + 1] = playlistInfo]
        ELSE Append(playlists, playlistInfo)

\* The stores the calls start from: empty, or holding playlist "a" already
RaceStores == {<<>>, savePlaylist(<<>>, InputPlaylist("a", 0), "m3u", Undefined, NoFault).io.store}

RaceInit ==
    /\ store \in RaceStores
    /\ call = NoCall
    /\ saved = NoCall
    /\ ret = NullResult
    /\ opsLeft = 0
    /\ inject = FALSE
    /\ ParserIdle
    /\ CtxIdle
    /\ HlsIdle
    /\ FlightIdle
    /\ RecentIdle

\* savePlaylist(playlist) is called: up to the await of the metadata write
RaceWriteMeta(pid) ==
    /\ flight[pid].pc = "idle"
    /\ \E n \in RaceCounts :
       \E io \in {setItem(StartIO(store), MetaKey(pid),
                          JSONObject(SaveMeta(InputPlaylist(pid, n), "m3u", Undefined)),
                          NoFault)} :
          /\ store' = io.store
          /\ flight' = [flight EXCEPT ![pid] = [NoFlight EXCEPT !.pc = "chunks", !.n = n]]
    /\ UNCHANGED <<call, saved, ret, opsLeft, inject, parserVars, ctxVars, hlsVars, recentVars>>

\* One turn of the chunk loop: the write of chunk i
RaceWriteChunk(pid) ==
    /\ flight[pid].pc = "chunks"
    /\ flight[pid].i < MathCeilDiv(flight[pid].n, CHUNK_SIZE)
    /\ \E io \in {setItem(StartIO(store), ChunkKey(pid, flight[pid].i),
                          ChunkOf(RacePlaylist(pid).channels, flight[pid].i), NoFault)} :
          /\ store' = io.store
          /\ flight' = [flight EXCEPT ![pid].i = @ + 1]
    /\ UNCHANGED <<call, saved, ret, opsLeft, inject, parserVars, ctxVars, hlsVars, recentVars>>

\* const playlists = await getPlaylistList()
RaceReadList(pid) ==
    /\ flight[pid].pc = "chunks"
    /\ ~(flight[pid].i < MathCeilDiv(flight[pid].n, CHUNK_SIZE))
    /\ \E got \in {getPlaylistList(StartIO(store), NoFault)} :
          flight' = [flight EXCEPT ![pid].pc = "write", ![pid].playlists = got.value]
    /\ UNCHANGED <<engineVars, parserVars, ctxVars, hlsVars, recentVars>>

\* The entry is put into the list that was read; await savePlaylistList(playlists)
RaceWriteList(pid) ==
    /\ flight[pid].pc = "write"
    /\ \E io \in {savePlaylistList(StartIO(store),
                      UpsertPlaylistInfo(flight[pid].playlists, RacePlaylist(pid), "m3u",
                          Undefined, SaveMeta(RacePlaylist(pid), "m3u", Undefined)),
                      NoFault)} :
          /\ store' = io.store
          /\ flight' = [flight EXCEPT ![pid].pc = "active"]
    /\ UNCHANGED <<call, saved, ret, opsLeft, inject, parserVars, ctxVars, hlsVars, recentVars>>

\* await setActivePlaylistId(playlist.id), and the return
RaceSetActive(pid) ==
    /\ flight[pid].pc = "active"
    /\ \E io \in {setActivePlaylistId(StartIO(store), pid, NoFault)} :
          /\ store' = io.store
          /\ flight' = [flight EXCEPT ![pid].pc = "done"]
    /\ UNCHANGED <<call, saved, ret, opsLeft, inject, parserVars, ctxVars, hlsVars, recentVars>>

RaceNext ==
    \E pid \in PlaylistIds :
        \/ RaceWriteMeta(pid)
        \/ RaceWriteChunk(pid)
        \/ RaceReadList(pid)
        \/ RaceWriteList(pid)
        \/ RaceSetActive(pid)

RaceSpec == RaceInit /\ [][RaceNext]_vars

(* ------------------------ recent channels state machine --------------- *)
\* The channel ids of the inputs
RecentIdTable ==
    <<"c1", "c2", "c3", "c4", "c5", "c6", "c7", "c8", "c9", "c10", "c11",
      "c12", "c13", "c14", "c15", "c16", "c17", "c18", "c19", "c20", "c21", "c22">>

\* The list n calls that went through leave, and those calls, oldest first:
\* addRecentChannel of c<n>, ..., c2, c1 on an empty store
RecentFill(n) == SubSeq(RecentIdTable, 1, n)
RecentFillCalls(n) == [k \in 1..n |-> [id |-> RecentIdTable[n + 1 - k], clean |-> TRUE]]
RecentFills == {0, RecentLimit - 1, RecentLimit}

\* The ids handed to addRecentChannel: the head, an inner one and the last
\* of a full list, and two ids no fill holds
AddIds == {"c1", "c10", "c20", "c21", "c22"}

RecentInit ==
    /\ \E n \in RecentFills :
          /\ store = IF n = 0 THEN <<>> ELSE Put(<<>>, RecentKey, RecentFill(n))
          /\ added = RecentFillCalls(n)
    /\ call = NoCall
    /\ saved = NoCall
    /\ ret = NullResult
    /\ opsLeft = MaxAdds
    /\ inject \in BOOLEAN
    /\ ParserIdle
    /\ CtxIdle
    /\ HlsIdle
    /\ FlightIdle

\* addRecentChannel(channelId), from its call to its return
AddRecent ==
    /\ opsLeft > 0
    /\ \E channelId \in AddIds, plan \in Plans(2, {ErrOther}) :
          LET io == addRecentChannel(StartIO(store), channelId, plan)
          IN  /\ store' = io.store
              /\ call' = [NoCall EXCEPT !.op = "addRecent", !.id = channelId, !.log = io.log]
              /\ added' = Append(added, [id |-> channelId, clean |-> Clean(io.log)])
    /\ opsLeft' = opsLeft - 1
    /\ UNCHANGED <<saved, ret, inject, parserVars, ctxVars, hlsVars, raceVars>>

RecentNext == AddRecent

RecentSpec == RecentInit /\ [][RecentNext]_vars

(* ----------------------- properties of the engine --------------------- *)

\* What the store holds for a playlist id
HasMeta(id) == MetaKey(id) \in DOMAIN store
MetaOf(id) == store[MetaKey(id)]
ChunkKeysOf(id) ==
    {key \in DOMAIN store :
        Len(key) = 3 /\ key[1] = STORAGE_KEYS.PLAYLIST_CHUNKS /\ key[2] = id}
SummaryList == IF PlaylistsKey \in DOMAIN store THEN store[PlaylistsKey] ELSE <<>>
SummaryEntries(id) == {k \in 1..Len(SummaryList) : SummaryList[k].id = id}

\* The store's out-of-space signal, in either of its shapes
OutOfSpace(e) == e \in {ErrDiskFullMessage, ErrSqliteFull}

\* The last save and the load that followed it on the same id
LoadAfterSave ==
    /\ call.op = "load"
    /\ saved.op = "save"
    /\ call.id = saved.id
LoadedChannels == ret.playlist.channels

\* The k-th channel (from 1) of the playlist the last save was given
SavedChannel(k) == InputChannel(saved.id, k - 1)

\* A loaded channel equals the original on the persisted fields
SameOn(fields, loaded, original) == \A f \in fields : loaded[f] = original[f]

\* A store call of a log: a write of chunk k of the id
IsChunkWrite(entry, id, k) == entry.fn = "setItem" /\ entry.keys = {ChunkKey(id, k)}

\* The chunk writes of a log, in the order they were issued
ChunkWrites(log) ==
    SelectSeq(log, LAMBDA entry :
        entry.fn = "setItem" /\ \E key \in entry.keys : key[1] = STORAGE_KEYS.PLAYLIST_CHUNKS)

\* The chunk indexes a save of n channels writes
ChunkIndexes(n) == {k \in 0..MaxChunks : k * CHUNK_SIZE < n}

(* ---- C1 ---- *)

\* C1 as stated: a save and a load of the same id, no store call failing,
\* give back as many channels, in order, each equal to the original on id,
\* name, url, group and logo.
C1_RoundTripExact ==
    (LoadAfterSave /\ Clean(saved.log) /\ Clean(call.log)) =>
        /\ ~ret.null
        /\ Len(LoadedChannels) = saved.n
        /\ \A k \in 1..saved.n :
              SameOn({"id", "name", "url", "group", "logo"},
                     LoadedChannels[k], SavedChannel(k))

\* C1 as amended: the same, except that the logo comes back equal only when
\* it is a non-empty string; an empty or absent logo comes back absent.
C1_RoundTrip ==
    (LoadAfterSave /\ Clean(saved.log) /\ Clean(call.log)) =>
        /\ ~ret.null
        /\ Len(LoadedChannels) = saved.n
        /\ \A k \in 1..saved.n :
              /\ SameOn({"id", "name", "url", "group"},
                        LoadedChannels[k], SavedChannel(k))
              /\ LoadedChannels[k].logo =
                    IF SavedChannel(k).logo = "" THEN Undefined ELSE SavedChannel(k).logo

\* A playlist of more than one chunk, the last one partial, one channel of it
\* with an empty logo, saved and loaded back whole
C1_Witness ==
    /\ LoadAfterSave
    /\ Clean(saved.log)
    /\ Clean(call.log)
    /\ saved.n > CHUNK_SIZE
    /\ saved.n % CHUNK_SIZE # 0
    /\ ~ret.null
    /\ Len(LoadedChannels) = saved.n
    /\ \E k \in 1..saved.n : SavedChannel(k).logo = ""

(* ---- C2 ---- *)

\* C2: when a save of an id directly follows a save of the same id, no store
\* call failing, the summary list holds one entry for the id and the store
\* holds exactly chunkCount chunk records for it, chunkCount being the value
\* in the metadata record after the second save.
C2_SaveIdempotent ==
    [][ (call.op = "save" /\ call'.op = "save" /\ call'.id = call.id /\ opsLeft' < opsLeft
            /\ Clean(call.log) /\ Clean(call'.log)) =>
        ( /\ Cardinality(SummaryEntries(call.id)) = 1
          /\ HasMeta(call.id)
          /\ Cardinality(ChunkKeysOf(call.id)) = MetaOf(call.id).chunkCount )' ]_vars

(* ---- C3 ---- *)

\* The store began to reject writes, with its out-of-space signal, at the
\* write of chunk k of the save: no earlier call failed, and every write the
\* save issued from there on was rejected with the signal
QuotaFromChunk(log, id, k) ==
    \E p \in 1..Len(log) :
        /\ IsChunkWrite(log[p], id, k)
        /\ \A q \in 1..(p - 1) : log[q].err = NoError
        /\ \A q \in p..Len(log) : log[q].fn = "setItem" => OutOfSpace(log[q].err)

\* C3: if the store rejects writes with the out-of-space signal from the
\* write of chunk k on, the save returns successfully, the metadata reports
\* chunkCount = k and totalChannels = k * 300, and a load of the id returns
\* the first k * 300 channels, in order.
C3_QuotaBoundary ==
    \A k \in ChunkIndexes(saved.n) :
        (saved.op = "save" /\ QuotaFromChunk(saved.log, saved.id, k)) =>
            /\ saved.thrown = NoError
            /\ HasMeta(saved.id)
            /\ MetaOf(saved.id).chunkCount = k
            /\ MetaOf(saved.id).totalChannels = k * CHUNK_SIZE
            /\ (LoadAfterSave /\ Clean(call.log)) =>
                  /\ ~ret.null
                  /\ Len(LoadedChannels) = k * CHUNK_SIZE
                  /\ \A j \in 1..(k * CHUNK_SIZE) : LoadedChannels[j].id = SavedChannel(j).id

(* ---- C4 ---- *)

\* C4: once a delete of an id has completed, the store holds no metadata
\* record, no chunk record and no summary entry for the id.
C4_DeleteComplete ==
    call.op = "delete" =>
        /\ ~HasMeta(call.id)
        /\ ChunkKeysOf(call.id) = {}
        /\ SummaryEntries(call.id) = {}

(* ---- C5 ---- *)

\* C5: between operations, every chunk record belongs to an id whose
\* metadata record is present.
C5_NoDanglingChunk ==
    \A id \in PlaylistIds : ChunkKeysOf(id) # {} => HasMeta(id)

(* ---- C6 ---- *)

\* C6: within one save the first store call is the write of the metadata
\* record of the playlist id, and the chunk writes are those of chunks
\* 0, 1, 2, ... of that id in this order: the m-th chunk write is the write of
\* chunk m - 1, so no index is skipped or written twice and chunk i is issued
\* only after chunks 0..i-1 were attempted.
C6_WriteOrdering ==
    call.op = "save" =>
        /\ Len(call.log) >= 1
        /\ call.log[1].fn = "setItem"
        /\ call.log[1].keys = {MetaKey(call.id)}
        /\ \A m \in 1..Len(ChunkWrites(call.log)) :
              ChunkWrites(call.log)[m].keys = {ChunkKey(call.id, m - 1)}

\* A save that issued the writes of two chunks, the second one rejected
C6_Witness ==
    /\ call.op = "save"
    /\ Len(ChunkWrites(call.log)) = 2
    /\ ChunkWrites(call.log)[2].err # NoError

(* ---- C7 ---- *)

\* C7: whenever a save returns successfully, the summary list holds exactly
\* one entry for the playlist id and the stored active-playlist id is that id.
C7_SummaryAndActiveAfterSave ==
    (call.op = "save" /\ call.thrown = NoError) =>
        /\ Cardinality(SummaryEntries(call.id)) = 1
        /\ Opt(store, ActiveKey) = <<call.id>>

(* ---- C8 ---- *)

\* C8: a save whose initial metadata write is rejected with the out-of-space
\* signal fails with the 'device storage full' error, issues no chunk write,
\* and leaves the chunk records, the summary list and the stored
\* active-playlist id as they were.
C8_MetaWriteOutOfSpace ==
    (call.op = "save" /\ OutOfSpace(call.log[1].err)) =>
        /\ call.thrown = DeviceStorageFullError
        /\ Len(ChunkWrites(call.log)) = 0
        /\ ChunkKeysIn(store) = call.before.chunks
        /\ Opt(store, PlaylistsKey) = call.before.list
        /\ Opt(store, ActiveKey) = call.before.active

\* The metadata write of a save of a non-empty playlist is rejected with the
\* out-of-space signal while another playlist is listed and active
C8_Witness ==
    /\ call.op = "save"
    /\ call.n > 0
    /\ OutOfSpace(call.log[1].err)
    /\ call.before.active # <<>>
    /\ call.before.active # <<call.id>>
    /\ call.before.list # <<>>

(* ---- C9 ---- *)

\* The write of chunk j of the save was rejected for a reason other than
\* out-of-space, every earlier call of the save having succeeded
OtherFailureAtChunk(log, id, j) ==
    \E p \in 1..Len(log) :
        /\ IsChunkWrite(log[p], id, j)
        /\ log[p].err = ErrOther
        /\ \A q \in 1..(p - 1) : log[q].err = NoError

\* C9: a save whose write of chunk j is rejected for a reason other than
\* out-of-space throws that error, writes no chunk of a greater index, leaves
\* the summary list and the active id as they were, and a following load of
\* the id returns, without error, exactly the channels of chunks 0..j-1.
C9_ChunkWriteFailure ==
    \A j \in ChunkIndexes(saved.n) :
        (saved.op = "save" /\ OtherFailureAtChunk(saved.log, saved.id, j)) =>
            /\ saved.thrown = ErrOther
            /\ Len(ChunkWrites(saved.log)) = j + 1
            /\ Opt(store, PlaylistsKey) = saved.before.list
            /\ Opt(store, ActiveKey) = saved.before.active
            /\ (LoadAfterSave /\ Clean(call.log)) =>
                  /\ call.thrown = NoError
                  /\ ~ret.null
                  /\ Len(LoadedChannels) = j * CHUNK_SIZE
                  /\ \A k \in 1..(j * CHUNK_SIZE) : LoadedChannels[k].id = SavedChannel(k).id

(* ---- C10 ---- *)

\* The store calls of a log that read the active-playlist id
ActiveReads(log) == {p \in 1..Len(log) : log[p].keys = {ActiveKey}}

\* C10: a load never raises.  Given an id it reads the records of that id and
\* never the active pointer: its result is null when the metadata record of
\* the id is absent and, when no read fails, the playlist of that id when it
\* is present.  Given no id it first reads the stored active id: its result is
\* null when none is stored or when the metadata record of the active id is
\* absent and, when no read fails, the playlist of the active id otherwise.
C10_LoadTargetResolution ==
    call.op = "load" =>
        /\ call.thrown = NoError
        /\ call.id # Undefined =>
              /\ ActiveReads(call.log) = {}
              /\ call.log[1].keys = {MetaKey(call.id)}
              /\ ~HasMeta(call.id) => ret.null
              /\ ~ret.null => ret.playlist.id = call.id
              /\ (HasMeta(call.id) /\ Clean(call.log)) => ~ret.null
        /\ call.id = Undefined =>
              /\ ActiveReads(call.log) = {1}
              /\ Opt(store, ActiveKey) = <<>> => (ret.null /\ Len(call.log) = 1)
              /\ \A id \in PlaylistIds :
                    Opt(store, ActiveKey) = <<id>> =>
                        /\ ~HasMeta(id) => ret.null
                        /\ ~ret.null => ret.playlist.id = id
                        /\ (HasMeta(id) /\ Clean(call.log)) => ~ret.null

\* A load of an explicit id, which is not the active one, returns its playlist
C10_Witness ==
    /\ call.op = "load"
    /\ call.id # Undefined
    /\ Opt(store, ActiveKey) # <<>>
    /\ Opt(store, ActiveKey) # <<call.id>>
    /\ ~ret.null
    /\ ret.playlist.id = call.id

(* ---- C11 ---- *)

\* The id a load resolved: the one given, else the stored active id
LoadedId == IF call.id # Undefined THEN call.id ELSE store[ActiveKey]

\* The load reached the chunk loop: an id was resolved and its metadata
\* record was present and read
LoadReadMeta ==
    /\ call.op = "load"
    /\ (call.id = Undefined => (ActiveKey \in DOMAIN store /\ call.log[1].err = NoError))
    /\ HasMeta(LoadedId)
    /\ \E p \in 1..Len(call.log) :
          call.log[p].keys = {MetaKey(LoadedId)} /\ call.log[p].err = NoError

\* Chunk i of the id is stored and its read by the load was not rejected
ChunkReadable(id, i) ==
    /\ ChunkKey(id, i) \in DOMAIN store
    /\ \A p \in 1..Len(call.log) :
          call.log[p].keys = {ChunkKey(id, i)} => call.log[p].err = NoError

\* What identifies a stored channel, and a loaded one
StoredFields(min) == <<min.i, min.n, min.u, min.g>>
LoadedFields(channel) == <<channel.id, channel.name, channel.url, channel.group>>

\* The channels of the readable chunks i..n-1 of the id, in index order
RECURSIVE ReadableFrom(_, _, _)
ReadableFrom(id, i, n) ==
    IF i >= n THEN <<>>
    ELSE (IF ChunkReadable(id, i)
          THEN [k \in 1..Len(store[ChunkKey(id, i)]) |->
                    StoredFields(store[ChunkKey(id, i)][k])]
          ELSE <<>>) \o ReadableFrom(id, i + 1, n)

\* C11: a load that finds the metadata record of its id, with chunkCount = n,
\* returns without error a playlist whose channels are those of the chunks
\* among 0..n-1 that are stored and readable, in ascending chunk order,
\* whichever of the chunks are missing or unreadable.
C11_DegradedLoad ==
    LoadReadMeta =>
        /\ call.thrown = NoError
        /\ ~ret.null
        /\ [k \in 1..Len(LoadedChannels) |-> LoadedFields(LoadedChannels[k])]
              = ReadableFrom(LoadedId, 0, MetaOf(LoadedId).chunkCount)

\* A load that skipped an unreadable chunk 0 and returned the channels of chunk 1
C11_Witness ==
    /\ LoadReadMeta
    /\ MetaOf(LoadedId).chunkCount = 2
    /\ ChunkKey(LoadedId, 0) \in DOMAIN store
    /\ ~ChunkReadable(LoadedId, 0)
    /\ ChunkReadable(LoadedId, 1)
    /\ ~ret.null
    /\ Len(LoadedChannels) = Len(store[ChunkKey(LoadedId, 1)])
    /\ Len(LoadedChannels) > 0

(* ---- C12 ---- *)

\* The summary list an operation started from
ListBefore == IF call.before.list = <<>> THEN <<>> ELSE call.before.list[1]

\* The entries of that list other than those of the id of the operation
RemainingEntries == SelectSeq(ListBefore, LAMBDA p : p.id # call.id)

SameExcept(new, old, fields) ==
    \A f \in ((DOMAIN new) \cup (DOMAIN old)) \ fields :
        f \in DOMAIN new /\ f \in DOMAIN old /\ new[f] = old[f]

\* new is old with the name, and the url when one is given, replaced
Patched(new, old, name, url) ==
    /\ SameExcept(new, old, {"name", "url"})
    /\ new.name = name
    /\ Prop(new, "url") = (IF url # Undefined THEN url ELSE Prop(old, "url"))

CleanSave == call.op = "save" /\ Clean(call.log)

\* The least number of chunks of CHUNK_SIZE channels that hold n channels
LeastChunks(n) == CHOOSE c \in 0..(MaxChunks + 1) :
                      c * CHUNK_SIZE >= n /\ \A d \in 0..(c - 1) : d * CHUNK_SIZE < n

\* The sum of the lengths of chunks 0..c-1 of an id
RECURSIVE ChunkSizesSum(_, _)
ChunkSizesSum(id, c) ==
    IF c = 0 THEN 0 ELSE ChunkSizesSum(id, c - 1) + Len(store[ChunkKey(id, c - 1)])

\* C21: after a failure-free save of n channels the metadata has
\* chunkCount = ceil(n / 300) and totalChannels = n; the save wrote the
\* chunk records 0..chunkCount-1, each once and no other; chunk i holds
\* channels 300*i .. min(300*(i+1), n) - 1 of the input in order; no written
\* chunk is empty; the chunk sizes sum to n.
C21_ChunkLayout ==
    CleanSave =>
        /\ MetaOf(call.id).chunkCount = LeastChunks(call.n)
        /\ MetaOf(call.id).totalChannels = call.n
        /\ Len(ChunkWrites(call.log)) = MetaOf(call.id).chunkCount
        /\ \A i \in 0..(MetaOf(call.id).chunkCount - 1) :
              /\ IsChunkWrite(ChunkWrites(call.log)[i + 1], call.id, i)
              /\ Len(store[ChunkKey(call.id, i)]) > 0
              /\ Len(store[ChunkKey(call.id, i)])
                    = Min(CHUNK_SIZE * (i + 1), call.n) - CHUNK_SIZE * i
              /\ \A j \in 1..Len(store[ChunkKey(call.id, i)]) :
                    store[ChunkKey(call.id, i)][j].i
                        = InputChannel(call.id, CHUNK_SIZE * i + j - 1).id
        /\ ChunkSizesSum(call.id, MetaOf(call.id).chunkCount) = call.n

\* A save of one full chunk and a chunk of a single channel
C21_Witness ==
    /\ CleanSave
    /\ call.n = CHUNK_SIZE + 1
    /\ MetaOf(call.id).chunkCount = 2
    /\ Len(store[ChunkKey(call.id, 0)]) = CHUNK_SIZE
    /\ Len(store[ChunkKey(call.id, 1)]) = 1


(* ---- C22 ---- *)

\* The distinct group values of a channel list
GroupsOf(channels) == {channels[k].group : k \in 1..Len(channels)}

\* The entries of a category list
CategorySet(categories) == {categories[k] : k \in 1..Len(categories)}

\* C22: every playlist a load returns lists as categories exactly the
\* distinct group values of the channels it returns, each once.
C22_LoadedCategoriesMatchChannels ==
    (call.op = "load" /\ ~ret.null) =>
        /\ CategorySet(ret.playlist.categories) = GroupsOf(ret.playlist.channels)
        /\ Cardinality(CategorySet(ret.playlist.categories)) = Len(ret.playlist.categories)


(* ---- C23 ---- *)

\* The metadata record and the chunk records of an id in a store
RecordsOf(s, id) ==
    {key \in DOMAIN s : key = MetaKey(id) \/ (key \in ChunkKeysIn(s) /\ key[2] = id)}

\* C23: a save, delete or update of one id, whether or not its store calls
\* are rejected, leaves the metadata record and every chunk record of every
\* other id as they were (none added, removed or changed), and a load of the
\* other id returns the same result after the operation as before it.
C23_Isolation ==
    [][ (call'.op \in {"save", "delete", "update"} /\ opsLeft' = opsLeft - 1) =>
        \A other \in PlaylistIds \ {call'.id} :
            /\ RecordsOf(store', other) = RecordsOf(store, other)
            /\ \A key \in RecordsOf(store, other) : store'[key] = store[key]
            /\ getPlaylist(store', other, NoFault).ret = getPlaylist(store, other, NoFault).ret
      ]_vars

\* A stored playlist with chunks is deleted while another playlist with
\* chunks is stored
C23_Witness ==
    /\ call.op = "delete"
    /\ call.id = "a"
    /\ ChunkKey("a", 0) \in call.before.chunks
    /\ ~HasMeta("a")
    /\ HasMeta("b")
    /\ ChunkKey("b", 1) \in DOMAIN store

(* ----------------------- properties of the parser --------------------- *)

Parsed == parsed.called
ParsedChannels == parsed.playlist.channels
ParsedCategories == parsed.playlist.categories

IssuedEarlier == {issued[k] : k \in 1..(Len(issued) - Len(ParsedChannels) - 1)}

\* C15: in every Playlist produced by the parser no two channels share an
\* id, and no id of the playlist or of its channels was generated by an
\* earlier parse.
C15_IdsUnique ==
    Parsed =>
        /\ \A j, k \in 1..Len(ParsedChannels) :
              j # k => ParsedChannels[j].id # ParsedChannels[k].id
        /\ parsed.playlist.id \notin IssuedEarlier
        /\ \A k \in 1..Len(ParsedChannels) : ParsedChannels[k].id \notin IssuedEarlier


\* The line at a 0-based index of the text, and the push log of the parse
LineAt(i) == content[i + 1]
Emitted == parsed.emitted
EntryLineOf(k) == Emitted[k][1]
UrlLineOf(k) == Emitted[k][2]
UrlLike(line) == ~LineIsEmpty(line) /\ ~StartsWithHash(line)

\* C16: every channel is produced from one entry-info line and one
\* non-empty non-comment line that follows it before the next entry-info
\* line; no entry-info line produces two channels; a URL line produces a
\* channel only from an entry line after the URL line of the channel before
\* (otherwise no entry is pending); channels are in the order of their URL
\* lines.
C16_EntryPairing ==
    Parsed =>
        /\ Len(Emitted) = Len(ParsedChannels)
        /\ \A k \in 1..Len(Emitted) :
              /\ 0 <= EntryLineOf(k)
              /\ EntryLineOf(k) < UrlLineOf(k)
              /\ UrlLineOf(k) < Len(content)
              /\ StartsWithExtInf(LineAt(EntryLineOf(k)))
              /\ UrlLike(LineAt(UrlLineOf(k)))
              /\ \A i \in (EntryLineOf(k) + 1)..(UrlLineOf(k) - 1) :
                    ~StartsWithExtInf(LineAt(i))
              /\ ParsedChannels[k].url = LineAt(UrlLineOf(k)).text
              /\ ParsedChannels[k].name = LineAt(EntryLineOf(k)).name
        /\ \A j, k \in 1..Len(Emitted) :
              j < k =>
                  /\ EntryLineOf(j) # EntryLineOf(k)
                  /\ UrlLineOf(j) < UrlLineOf(k)
                  /\ UrlLineOf(j) < EntryLineOf(k)

\* An entry line with no URL line before the next entry line, a whole
\* entry, then a URL line with no entry pending: one channel, of the entry
C16_Witness ==
    /\ Parsed
    /\ Len(content) = 4
    /\ StartsWithExtInf(content[1]) /\ content[1].name = "One"
    /\ StartsWithExtInf(content[2]) /\ content[2].name = "Two"
    /\ UrlLike(content[3])
    /\ UrlLike(content[4])
    /\ Len(ParsedChannels) = 1
    /\ ParsedChannels[1].name = "Two"
    /\ Emitted = << <<1, 2>> >>



(* ---- C27 ---- *)

\* The 0-based indexes of the (up to) five lines before line i
Window(i) == {j \in 0..(i - 1) : j >= i - 5}

DrmDirectives == {"license_type", "license_key"}
HeaderDirectives == {"http-user-agent", "http-referrer"}

\* A line of the text at index j is a directive of a family
DirectiveAt(j, family) == \E d \in family : IncludesDirective(LineAt(j), d)

\* C27: the channel emitted for the URL line at index i carries a DRM
\* descriptor exactly when a DRM directive is among lines max(0, i-5)..i-1,
\* and request headers exactly when an HTTP-header directive is among the same
\* lines; a directive more than five lines before the URL line is not attached.
C27_LookbackWindow ==
    Parsed =>
        \A k \in 1..Len(ParsedChannels) :
            /\ (ParsedChannels[k].drm # UndefinedObject)
                  <=> (\E j \in Window(UrlLineOf(k)) : DirectiveAt(j, DrmDirectives))
            /\ (ParsedChannels[k].headers # UndefinedObject)
                  <=> (\E j \in Window(UrlLineOf(k)) : DirectiveAt(j, HeaderDirectives))

\* A DRM directive six lines before the URL line of a channel that carries
\* no DRM descriptor
C27_Witness ==
    /\ Parsed
    /\ Len(ParsedChannels) = 1
    /\ UrlLineOf(1) = 6
    /\ DirectiveAt(0, DrmDirectives)
    /\ ParsedChannels[1].drm = UndefinedObject

\* A header directive five lines before the URL line of a channel that
\* carries the header
C27_WitnessInside ==
    /\ Parsed
    /\ Len(ParsedChannels) = 1
    /\ UrlLineOf(1) = 5
    /\ DirectiveAt(0, HeaderDirectives)
    /\ ParsedChannels[1].headers.userAgent = "Agent/1.0"


(* ---- C28 ---- *)

\* The index of the URL line of the channel emitted before channel k; -1 for
\* the first channel
PreviousUrlLineOf(k) == IF k = 1 THEN 0 - 1 ELSE UrlLineOf(k - 1)

\* The lines of the entry of channel k: after the URL line of the channel
\* before, before its own URL line
OwnLines(k) == {j \in 0..(UrlLineOf(k) - 1) : j > PreviousUrlLineOf(k)}

\* C28: a channel carries a DRM descriptor or request headers only when a
\* directive of that family is among the lines of its own entry: the lines
\* after the URL line of the previously emitted channel.
C28_DirectiveOfOwnEntry ==
    Parsed =>
        \A k \in 1..Len(ParsedChannels) :
            /\ ParsedChannels[k].drm # UndefinedObject
                  => \E j \in OwnLines(k) : DirectiveAt(j, DrmDirectives)
            /\ ParsedChannels[k].headers # UndefinedObject
                  => \E j \in OwnLines(k) : DirectiveAt(j, HeaderDirectives)


(* ---- C29 ---- *)

\* An entry-info line without display name at index i - 1, a URL line at i
NamelessEntryAt(i) ==
    /\ i >= 1
    /\ i < Len(content)
    /\ StartsWithExtInf(LineAt(i - 1))
    /\ ~Truthy(LineAt(i - 1).name)
    /\ UrlLike(LineAt(i))

\* C29: an entry-info line that carries no display name, followed by a URL
\* line, yields a channel named "Unknown Channel"; every emitted channel has a
\* non-empty name and a non-empty group.
C29_NameDefault ==
    Parsed =>
        /\ \A i \in 1..(Len(content) - 1) :
              NamelessEntryAt(i) =>
                  \E k \in 1..Len(ParsedChannels) :
                      /\ UrlLineOf(k) = i
                      /\ ParsedChannels[k].name = "Unknown Channel"
        /\ \A k \in 1..Len(ParsedChannels) :
              /\ Truthy(ParsedChannels[k].name)
              /\ Truthy(ParsedChannels[k].group)

\* Every emitted channel has a non-empty name and a non-empty group
C29_NonEmptyNameAndGroup ==
    Parsed =>
        \A k \in 1..Len(ParsedChannels) :
            /\ Truthy(ParsedChannels[k].name)
            /\ Truthy(ParsedChannels[k].group)

(* ----------------------- properties of the context -------------------- *)

\* The fetch of the operation has settled
FetchSettled == task.op \in {"url", "refresh"} /\ task.response # NoResponse

\* A successful response whose body holds a playlist marker
Accepted(response) ==
    /\ response.threw = "none"
    /\ response.ok
    /\ (IncludesExtM3U(response.body) \/ IncludesExtInf(response.body))

\* C17: fetch-and-parse yields a Playlist exactly when the response is
\* successful and its body holds "#EXTM3U" or an entry-info directive; in every
\* other case it raises the fetch-failure error, and a URL load through the
\* context then ends with that error, has issued no store call, and leaves
\* the store, the in-memory playlist and the active id as they were.
C17_FetchAcceptance ==
    FetchSettled =>
        /\ ~task.produced.null <=> Accepted(task.response)
        /\ Accepted(task.response) => task.fetchThrown = NoError
        /\ ~Accepted(task.response) =>
              /\ task.fetchThrown = FetchError
              /\ task.op = "url" =>
                    /\ task.pc = "done"
                    /\ task.thrown = FetchError
                    /\ task.log = <<>>
                    /\ store = task.before
                    /\ ctx.playlist = task.memBefore.playlist
                    /\ ctx.activePlaylistId = task.memBefore.activePlaylistId

\* A URL load answered 200 with a page that is no playlist, while a playlist
\* loaded earlier is stored and shown
C17_Witness ==
    /\ task.op = "url"
    /\ task.pc = "done"
    /\ task.response = [threw |-> "none", ok |-> TRUE, body |-> BodyHtml]
    /\ task.thrown = FetchError
    /\ ~ctx.playlist.null
    /\ ActiveKey \in DOMAIN store
    /\ ctx.error = FetchError.message


\* A Playlist with every property parseM3U gives it
CompletePlaylist(result) ==
    /\ ~result.null
    /\ {"id", "name", "channels", "categories", "lastUpdated"} \subseteq DOMAIN result.playlist

\* C18: in loadPlaylistFromUrl, loadPlaylistFromFile and auto-refresh the
\* store is as it was when the operation started for as long as the
\* operation has not reached its savePlaylist call, no Playlist exists while
\* the fetch is pending, and an operation that has issued a store call or
\* changed the store had produced a complete Playlist before.
C18_NoWriteBeforePlaylist ==
    /\ task.pc \in {"fetch", "save"} => store = task.before /\ task.log = <<>>
    /\ task.pc = "fetch" => task.produced.null
    /\ task.pc = "save" => CompletePlaylist(task.produced)
    /\ (task.op # "none" /\ (store # task.before \/ task.log # <<>>))
          => CompletePlaylist(task.produced)

\* A URL load cancelled while its fetch is pending, with a playlist of an
\* earlier load in the store
C18_Witness ==
    /\ task.op = "url"
    /\ task.pc = "fetch"
    /\ ~ctx.isLoadingPlaylist
    /\ ActiveKey \in DOMAIN store
    /\ Len(SummaryList) = 1
    /\ store = task.before



(* ---- C24 ---- *)

\* The index of the chunk at which a save was cut short: a chunk write
\* rejected for lack of space and followed by an accepted metadata rewrite
TruncatedAt(log, id) ==
    {k \in 0..MaxChunks :
        \E j \in 1..(Len(log) - 1) :
            /\ IsChunkWrite(log[j], id, k)
            /\ OutOfSpace(log[j].err)
            /\ log[j + 1].fn = "setItem"
            /\ log[j + 1].keys = {MetaKey(id)}
            /\ log[j + 1].err = NoError}

\* A load from a URL or a file has returned, and its save was cut short
TruncatedContextLoad ==
    /\ task.pc = "done"
    /\ task.op \in {"url", "file"}
    /\ task.thrown = NoError
    /\ ~ctx.playlist.null
    /\ TruncatedAt(task.log, ctx.playlist.playlist.id) # {}

\* C24: after a context load whose save was cut short at chunk k, the
\* playlist held in memory has exactly the k * 300 channels that were
\* persisted: the channels a load of the same id returns.
C24_MemoryMatchesTruncatedSave ==
    TruncatedContextLoad =>
        \E loaded \in {getPlaylist(store, ctx.playlist.playlist.id, NoFault).ret} :
            /\ ~loaded.null
            /\ \A k \in TruncatedAt(task.log, ctx.playlist.playlist.id) :
                  Len(ctx.playlist.playlist.channels) = k * CHUNK_SIZE
            /\ Len(ctx.playlist.playlist.channels) = Len(loaded.playlist.channels)
            /\ \A j \in 1..Len(loaded.playlist.channels) :
                  ctx.playlist.playlist.channels[j].id = loaded.playlist.channels[j].id


(* ---- C25 ---- *)

\* The ids generateId can return
IdUniverse == {Tokens[k] : k \in 1..Len(Tokens)}

\* The channels of the playlist held in memory
CurrentChannels == IF ctx.playlist.null THEN <<>> ELSE ctx.playlist.playlist.channels

\* C25: in every state of the context getChannelById(x) returns, for every
\* channel of the current playlist, that channel when asked for its id, and
\* returns undefined for every other x and whenever no playlist is loaded.
C25_IndexById ==
    /\ \A j \in 1..Len(CurrentChannels) :
          getChannelById(ctx, CurrentChannels[j].id)
              = [found |-> TRUE, channel |-> CurrentChannels[j]]
    /\ \A x \in IdUniverse :
          (\A j \in 1..Len(CurrentChannels) : CurrentChannels[j].id # x)
              => ~getChannelById(ctx, x).found


(* ---- C26 ---- *)

\* The sum of the lengths of the lists of a map over a set of its keys
RECURSIVE ListSizesSum(_, _)
ListSizesSum(map, keys) ==
    IF keys = {} THEN 0
    ELSE LET g == CHOOSE g \in keys : TRUE
         IN  Len(map[g]) + ListSizesSum(map, keys \ {g})

\* C26: the category index of the current playlist partitions its channel
\* list: its keys are the groups of the channels, the list of group g is the
\* subsequence of playlist.channels whose group is g, in source order, so
\* every channel is in exactly one list, and the list sizes sum to the
\* channel count.
C26_CategoryIndexPartition ==
    \E map \in {categoryIndexMap(ctx)} :
        /\ DOMAIN map = GroupsOf(CurrentChannels)
        /\ \A g \in DOMAIN map :
              map[g] = SelectSeq(CurrentChannels, LAMBDA ch : ch.group = g)
        /\ \A j \in 1..Len(CurrentChannels) :
              Cardinality({g \in DOMAIN map :
                  \E k \in 1..Len(map[g]) : map[g][k] = CurrentChannels[j]}) = 1
        /\ ListSizesSum(map, DOMAIN map) = Len(CurrentChannels)

\* The current playlist has two channels of one group around a channel of
\* another group
C26_Witness ==
    /\ Len(CurrentChannels) = 3
    /\ CurrentChannels[1].group = "News"
    /\ CurrentChannels[2].group = "Uncategorized"
    /\ CurrentChannels[3].group = "News"
    /\ Len(categoryIndexMap(ctx)["News"]) = 2
    /\ categoryIndexMap(ctx)["News"][1].name = "One"


(* ---- C30 ---- *)

\* The <base> of the final path segment <base>.m3u or <base>.m3u8 of the
\* input URLs
BaseOfFinalSegment(url) ==
    CASE url = "http://host/list.m3u" -> "list"
      [] url = "http://host/tv.m3u8?token=1" -> "tv"

\* fetchAndParseM3U(url) has returned a Playlist
FetchedPlaylist == task.op \in {"url", "refresh"} /\ ~task.produced.null

\* C30: a Playlist fetched from a URL whose final path segment is <base>.m3u
\* or <base>.m3u8, with or without a query string, is named <base>, and its
\* url is the URL fetched.
C30_DefaultNameFromUrl ==
    (FetchedPlaylist /\ task.url \in Urls) =>
        /\ task.produced.playlist.name = BaseOfFinalSegment(task.url)
        /\ task.produced.playlist.url = task.url

\* The part of C30 on URLs that end in .m3u
C30_NameFromM3UUrl ==
    (FetchedPlaylist /\ task.url = "http://host/list.m3u") =>
        /\ task.produced.playlist.name = "list"
        /\ task.produced.playlist.url = task.url

(* ------------------ properties of the quality resolver ---------------- *)

Resolved == qualities.called
\* The manifest was fetched and read
ManifestRead == manifest.threw = "none" /\ manifest.ok
\* The variants of the manifest, in manifest order
ManifestVariants == VariantsFrom(manifest.body, 0, MasterPlaylistUrl, <<>>)
\* The resolution key a variant maps to
KeyOf(variant) == QualityOf(variant).resolution

\* C19: in the list returned by the quality resolver no two entries share
\* a resolution key, and the entry retained for a key carries the highest
\* bandwidth among the variants of the manifest that map to that key.
C19_QualityDedup ==
    (Resolved /\ ManifestRead) =>
        /\ \A j, k \in 1..Len(qualities.value) :
              j # k => qualities.value[j].resolution # qualities.value[k].resolution
        /\ \A k \in 1..Len(qualities.value) :
           \A v \in 1..Len(ManifestVariants) :
              KeyOf(ManifestVariants[v]) = qualities.value[k].resolution
                  => ~GreaterThan(ManifestVariants[v].bandwidth, qualities.value[k].bitrate)
                        /\ (qualities.value[k].bitrate.nan => ManifestVariants[v].bandwidth.nan)


\* C20: a call of the quality resolver raises nothing to its caller; on a
\* rejected fetch or read, a non-success response, or a manifest without a
\* parseable variant it returns the empty list; and it issues no store call
\* and leaves the store as it was.
C20_ResolverNeverRaises ==
    [][ (~qualities.called /\ qualities'.called) =>
            /\ qualities'.thrown = NoError
            /\ (manifest.threw # "none" \/ ~manifest.ok \/ Len(ManifestVariants) = 0)
                  => qualities'.value = <<>>
            /\ store' = store
            /\ call' = call ]_vars

\* The fetch of the manifest was rejected while a playlist is stored
C20_Witness ==
    /\ Resolved
    /\ manifest.threw = "fetch"
    /\ qualities.thrown = NoError
    /\ qualities.value = <<>>
    /\ PlaylistsKey \in DOMAIN store


(* ---- C31 ---- *)

\* The 0-based index of the first line after line i that is neither blank
\* nor a comment, or -1 when there is none
FollowingUrlLine(i) ==
    IF \E j \in (i + 1)..(Len(manifest.body) - 1) : manifest.body[j + 1].kind = "url"
    THEN CHOOSE j \in (i + 1)..(Len(manifest.body) - 1) :
             /\ manifest.body[j + 1].kind = "url"
             /\ \A h \in (i + 1)..(j - 1) : manifest.body[h + 1].kind # "url"
    ELSE 0 - 1

\* The indexes of the stream-variant directives that have a URL line after them
PairedDirectives ==
    {i \in 0..(Len(manifest.body) - 1) :
        manifest.body[i + 1].kind = "stream-inf" /\ FollowingUrlLine(i) >= 0}

\* The variant of the directive at index i with the non-comment line that follows it
PairedVariant(i) ==
    NewVariant(manifest.body[i + 1], manifest.body[FollowingUrlLine(i) + 1], MasterPlaylistUrl)

\* C31: every stream-variant directive is paired with the following
\* non-comment line as its URL and yields one variant, also when comment or
\* blank lines stand between the two; a directive with no following
\* non-comment line yields none. On the returned list, which keeps one entry
\* per resolution key: the keys returned are exactly the keys of the paired
\* directives, and every returned URL is the URL of a paired directive.
C31_VariantUrlPairing ==
    (Resolved /\ ManifestRead) =>
        /\ {qualities.value[k].resolution : k \in 1..Len(qualities.value)}
              = {KeyOf(PairedVariant(i)) : i \in PairedDirectives}
        /\ \A k \in 1..Len(qualities.value) :
              \E i \in PairedDirectives : qualities.value[k].url = PairedVariant(i).url

\* The same, for directives whose URL line is the very next line
C31_AdjacentPairing ==
    (Resolved /\ ManifestRead) =>
        {qualities.value[k].resolution : k \in 1..Len(qualities.value)}
            = {KeyOf(PairedVariant(i)) :
                  i \in {h \in PairedDirectives : FollowingUrlLine(h) = h + 1}}


(* ---- C32 ---- *)

\* The fixed tier of an integer height
HeightTier(h) ==
    IF h >= 2160 THEN "4K"
    ELSE IF h >= 1440 THEN "1440p"
    ELSE IF h >= 1080 THEN "1080p"
    ELSE IF h >= 720 THEN "720p"
    ELSE IF h >= 480 THEN "480p"
    ELSE IF h >= 360 THEN "360p"
    ELSE HeightLabel(Num(h))

\* The tier of an integer bandwidth: round(bandwidth / 1000) kbps, halves up
BandwidthTier(b) ==
    IF 2 * b >= 2 * 8000 * 1000 - 1000 THEN "High"
    ELSE IF 2 * b >= 2 * 4000 * 1000 - 1000 THEN "Medium-High"
    ELSE IF 2 * b >= 2 * 2000 * 1000 - 1000 THEN "Medium"
    ELSE IF 2 * b >= 2 * 1000 * 1000 - 1000 THEN "Low"
    ELSE "Very Low"

\* The variants with integer height, or without resolution and with integer
\* bandwidth
IntegerVariant(v) ==
    IF v.resolution.known THEN ~v.resolution.height.nan ELSE ~v.bandwidth.nan

TierLabel(v) ==
    IF v.resolution.known THEN HeightTier(v.resolution.height.value)
    ELSE BandwidthTier(v.bandwidth.value)

\* The variants of the manifest a returned entry may stand for
SourcesOf(quality) ==
    {v \in 1..Len(ManifestVariants) :
        /\ ManifestVariants[v].url = quality.url
        /\ ManifestVariants[v].bandwidth = quality.bitrate
        /\ KeyOf(ManifestVariants[v]) = quality.resolution}

\* C32: every returned variant with a known integer height is labelled by
\* the tier of its height, and every returned variant without resolution by
\* the tier of its bandwidth, whether or not it has a NAME attribute.
C32_LabelTiers ==
    (Resolved /\ ManifestRead) =>
        \A k \in 1..Len(qualities.value) :
            /\ SourcesOf(qualities.value[k]) # {}
            /\ \A v \in SourcesOf(qualities.value[k]) :
                  IntegerVariant(ManifestVariants[v]) =>
                      \E w \in SourcesOf(qualities.value[k]) :
                          qualities.value[k].label = TierLabel(ManifestVariants[w])

\* The same, for returned variants none of whose sources has a NAME attribute
C32_UnnamedLabelTiers ==
    (Resolved /\ ManifestRead) =>
        \A k \in 1..Len(qualities.value) :
            (\A v \in SourcesOf(qualities.value[k]) :
                /\ IntegerVariant(ManifestVariants[v])
                /\ ManifestVariants[v].name = Undefined)
            => \E w \in SourcesOf(qualities.value[k]) :
                   qualities.value[k].label = TierLabel(ManifestVariants[w])


(* ---- C33 ---- *)

\* Both savePlaylist calls have returned
BothSaved == \A pid \in PlaylistIds : flight[pid].pc = "done"

\* C33: when two saves of playlists with different ids are in flight at
\* the same time, with their store reads and writes interleaved in any order,
\* the summary list holds an entry for each of the two ids once both have
\* returned.
C33_ConcurrentSavesKeepBoth ==
    BothSaved => \A pid \in PlaylistIds : SummaryEntries(pid) # {}


(* ---- C34 ---- *)

\* A context operation has completed
Completed == task.pc = "done"

\* The active id recorded in the store, null when there is none
StoredActiveId == IF ActiveKey \in DOMAIN store THEN store[ActiveKey] ELSE Null

\* C34: after every completed context operation the activePlaylistId of
\* the context equals the active id recorded in the store, and the id of the
\* playlist in memory, when there is one, equals activePlaylistId.
C34_ActiveIdAgreement ==
    Completed =>
        /\ ctx.activePlaylistId = StoredActiveId
        /\ ~ctx.playlist.null => ctx.playlist.playlist.id = ctx.activePlaylistId

\* The same after operations other than auto-refresh, none of whose store
\* calls was rejected
C34_AgreementAfterCleanLoads ==
    (Completed /\ inject /\ task.op \in {"url", "file"}) =>
        /\ ctx.activePlaylistId = StoredActiveId
        /\ ~ctx.playlist.null => ctx.playlist.playlist.id = ctx.activePlaylistId


(* ---- C35 ---- *)

\* The ids that have a metadata or a chunk record in a store
StoredIds(s) == {key[2] : key \in {k \in DOMAIN s : k # PlaylistsKey /\ k # ActiveKey}}

\* The playlist the refresh started from: the active one of the context
RefreshedId == task.memBefore.activePlaylistId

\* An auto-refresh of a URL playlist has completed, its playlist saved
Refreshed ==
    /\ Completed
    /\ task.op = "refresh"
    /\ Truthy(task.url)
    /\ ~task.produced.null
    /\ Clean(task.log)
    /\ Len(task.log) > 0

\* C35: a refresh of the active URL playlist leaves the number of entries
\* of the summary list unchanged, and leaves no metadata or chunk record of
\* the version of the playlist it replaced: every record of the id refreshed
\* is one the refresh wrote.
C35_RefreshReplaces ==
    Refreshed =>
        /\ Len(SummaryList) = Len(task.memBefore.playlists)
        /\ RefreshedId \in StoredIds(store) => RefreshedId = task.produced.playlist.id


(* ---- C36 ---- *)

\* cancelLoading was invoked while the URL load in flight was running: the
\* load raised the loading flag when it began, and nothing else lowers it
\* before the load ends
CancelledUrlLoad ==
    /\ task.op = "url"
    /\ task.pc \in {"fetch", "save"}
    /\ ~ctx.isLoadingPlaylist

\* C36: once cancelLoading has been invoked while a URL load is in flight,
\* no later step writes to the store, replaces the playlist in memory or
\* changes the active playlist id on behalf of that load.
C36_CancelTakesEffect ==
    [][ CancelledUrlLoad =>
            /\ store' = store
            /\ ctx'.playlist = ctx.playlist
            /\ ctx'.activePlaylistId = ctx.activePlaylistId ]_vars


(* ---- C37 ---- *)

\* The ids of the summary list, and the ids that have a metadata record
SummaryIds == {SummaryList[k].id : k \in 1..Len(SummaryList)}
MetaIds == {pid \in PlaylistIds : HasMeta(pid)}

\* C37: between completed saves (successful, truncated or failed), deletes
\* and updates, the ids of the summary list are the ids that have a metadata
\* record, and the channelCount of each summary entry is the totalChannels of
\* the metadata record of its id.
C37_SummaryMatchesMetadata ==
    /\ SummaryIds = MetaIds
    /\ \A k \in 1..Len(SummaryList) :
          HasMeta(SummaryList[k].id)
              => SummaryList[k].channelCount = MetaOf(SummaryList[k].id).totalChannels


(* ---- C38 ---- *)

\* C38: between completed operations the stored active id is absent, or
\* is the id of a playlist that has a summary entry and a metadata record; a
\* load without id then resolves to no deleted playlist.
C38_ActivePointerValid ==
    ActiveKey \in DOMAIN store =>
        /\ SummaryEntries(store[ActiveKey]) # {}
        /\ HasMeta(store[ActiveKey])


(* ---- C39 ---- *)

\* The categories list of the current playlist
CurrentCategories ==
    IF ctx.playlist.null THEN <<>> ELSE ctx.playlist.playlist.categories

\* C39: for every name c of the categories list of the current playlist,
\* getChannelsByCategory(c) is the subsequence of the channels of the
\* playlist whose group is c, in source order, whatever the name is.
C39_CategoryLookup ==
    \A k \in 1..Len(CurrentCategories) :
        getChannelsByCategory(ctx, CurrentCategories[k])
            = SelectSeq(CurrentChannels, LAMBDA ch : ch.group = CurrentCategories[k])

\* The same, for the names other than "All"
C39_LookupOfOtherNames ==
    \A k \in 1..Len(CurrentCategories) :
        CurrentCategories[k] # "All" =>
            getChannelsByCategory(ctx, CurrentCategories[k])
                = SelectSeq(CurrentChannels, LAMBDA ch : ch.group = CurrentCategories[k])


(* ---- C40 ---- *)

\* The stored recent list
StoredRecent == IF RecentKey \in DOMAIN store THEN store[RecentKey] ELSE <<>>

\* The position in added of the latest call that passed id, 0 when none did
LastAdded(id) ==
    IF \E k \in 1..Len(added) : added[k].id = id
    THEN CHOOSE k \in 1..Len(added) :
             added[k].id = id /\ \A m \in (k + 1)..Len(added) : added[m].id # id
    ELSE 0

\* Every call so far had its read and its write go through
AllWentThrough == \A k \in 1..Len(added) : added[k].clean

\* The ids passed so far
AddedIds == {added[k].id : k \in 1..Len(added)}

====
